---- MODULE Spec2Model ----
(***************************************************************************)
(* Distributed world synchronisation of noita-proxy (net/world.rs): the    *)
(* per-chunk authority protocol between one host and its peers.            *)
(*                                                                         *)
(* Every peer runs one WorldManager.  A manager is modelled as a record    *)
(* with the fields of the Rust struct, and every method as an operator     *)
(* from a manager (and its arguments) to the manager after the call.       *)
(* emit_msg and handle_msg call each other (a message whose destination    *)
(* is the emitting peer is handled inline), so they are RECURSIVE.         *)
(* The transport is a reliable FIFO channel per ordered pair of peers.     *)
(***************************************************************************)
EXTENDS Integers, Sequences, FiniteSets, TLC

(***************************************************************************)
(* Bounds of the model.                                                    *)
(***************************************************************************)
\* Simulator frames (add_end calls) over all peers, which caps the u64
\* counters current_update: from construction (Spec), and counting the two
\* frames that lead to its initial state (SpecListen).
MaxFrames == 2
MaxFramesListen == 5

(***************************************************************************)
(* Peers, chunks, priorities, positions.                                   *)
(***************************************************************************)
Host == "H"
Peers == {"H", "A", "B"}
\* ChunkCoord(0, 0)
Chunk0 == <<0, 0>>
Chunks == {Chunk0}
\* u8 priorities the simulator passes to add_end (lower is stronger).
Priorities == {50, 100}
\* Option<T>: None is the empty tuple, Some(x) the tuple of x (an owner or a
\* successor, Some((peer, priority)), is the pair itself).
None == <<>>
Some(x) == <<x>>
\* i32::MIN / 2
MinHalf == -1073741824
\* pos slices of add_end: [mx, my, cx, cy, is_notplayer, world_num] next to
\* the chunk, the same far away, or the short form [world_num].
PosNear == <<0, 0, 0, 0, 0, 0>>
PosFar == <<MinHalf, MinHalf, MinHalf, MinHalf, 0, 0>>
PosShort == <<0>>
PosInputs == {PosNear, PosFar, PosShort}

(***************************************************************************)
(* ChunkState                                                              *)
(***************************************************************************)
NoState == [kind |-> "None"]
StRequestAuthority(priority, can_wait) ==
    [kind |-> "RequestAuthority", priority |-> priority, can_wait |-> can_wait]
StWaitingForAuthority == [kind |-> "WaitingForAuthority"]
StListening(authority, priority) ==
    [kind |-> "Listening", authority |-> authority, priority |-> priority]
StAuthority(listeners, priority, new_authority, stop_sending) ==
    [kind |-> "Authority", listeners |-> listeners, priority |-> priority,
     new_authority |-> new_authority, stop_sending |-> stop_sending]
StUnloadPending == [kind |-> "UnloadPending"]
StTransfer == [kind |-> "Transfer"]
StWantToGetAuth(authority, auth_priority, my_priority) ==
    [kind |-> "WantToGetAuth", authority |-> authority,
     auth_priority |-> auth_priority, my_priority |-> my_priority]
\* ChunkState::authority(priority)
authority(priority) == StAuthority({}, priority, None, FALSE)

(***************************************************************************)
(* Destination and WorldNetMessage                                         *)
(***************************************************************************)
DstHost == [kind |-> "Host"]
DstPeer(p) == [kind |-> "Peer", peer |-> p]
DstBroadcast == [kind |-> "Broadcast"]

MRequestAuthority(chunk, priority, can_wait) ==
    [type |-> "RequestAuthority", chunk |-> chunk, priority |-> priority,
     can_wait |-> can_wait]
MAskForAuthority(chunk, priority) ==
    [type |-> "AskForAuthority", chunk |-> chunk, priority |-> priority]
MLoseAuthority(chunk, new_priority, new_authority) ==
    [type |-> "LoseAuthority", chunk |-> chunk, new_priority |-> new_priority,
     new_authority |-> new_authority]
MChangePriority(chunk, priority) ==
    [type |-> "ChangePriority", chunk |-> chunk, priority |-> priority]
MGotAuthority(chunk, chunk_data, priority) ==
    [type |-> "GotAuthority", chunk |-> chunk, chunk_data |-> chunk_data,
     priority |-> priority]
MRelinquishAuthority(chunk, chunk_data, world_num) ==
    [type |-> "RelinquishAuthority", chunk |-> chunk, chunk_data |-> chunk_data,
     world_num |-> world_num]
MUpdateStorage(chunk, chunk_data, world_num) ==
    [type |-> "UpdateStorage", chunk |-> chunk, chunk_data |-> chunk_data,
     world_num |-> world_num]
MAuthorityAlreadyTaken(chunk, auth) ==
    [type |-> "AuthorityAlreadyTaken", chunk |-> chunk, authority |-> auth]
MListenRequest(chunk) == [type |-> "ListenRequest", chunk |-> chunk]
MListenStopRequest(chunk) == [type |-> "ListenStopRequest", chunk |-> chunk]
MUnloadChunk(chunk) == [type |-> "UnloadChunk", chunk |-> chunk]
MListenInitialResponse(chunk, chunk_data, priority) ==
    [type |-> "ListenInitialResponse", chunk |-> chunk,
     chunk_data |-> chunk_data, priority |-> priority]
\* A ChunkDelta is its chunk coordinate and the content it carries.
Delta(chunk, data) == [chunk_coord |-> chunk, data |-> data]
MListenUpdate(delta, priority, take_auth) ==
    [type |-> "ListenUpdate", delta |-> delta, priority |-> priority,
     take_auth |-> take_auth]
MChunkPacket(chunkpacket) == [type |-> "ChunkPacket", chunkpacket |-> chunkpacket]
MListenAuthorityRelinquished(chunk) ==
    [type |-> "ListenAuthorityRelinquished", chunk |-> chunk]
MGetAuthorityFrom(chunk, current_authority) ==
    [type |-> "GetAuthorityFrom", chunk |-> chunk,
     current_authority |-> current_authority]
MRequestAuthorityTransfer(chunk) ==
    [type |-> "RequestAuthorityTransfer", chunk |-> chunk]
MTransferOk(chunk, chunk_data, listeners) ==
    [type |-> "TransferOk", chunk |-> chunk, chunk_data |-> chunk_data,
     listeners |-> listeners]
MTransferFailed(chunk) == [type |-> "TransferFailed", chunk |-> chunk]
MNotifyNewAuthority(chunk) == [type |-> "NotifyNewAuthority", chunk |-> chunk]

(***************************************************************************)
(* WorldManager::new                                                       *)
(*   log is not a field of the struct: it records, for the entry point     *)
(*   being run, every handle_msg and emit_msg call in call order.          *)
(***************************************************************************)
EmptyMap == [c \in Chunks |-> None]
NoStates == [c \in Chunks |-> NoState]

\* u16 materials; 0 is air.
Materials == {0, 1}
\* durabilities: material -> Option<(u8, u32)>; HashMap::new() has no entry.
NoDurabilities == [m \in Materials |-> None]

new(is_host, my_peer_id, chunk_storage) ==
    [nice_terraforming |-> TRUE,
     is_host |-> is_host,
     my_pos |-> <<MinHalf, MinHalf>>,
     cam_pos |-> <<MinHalf, MinHalf>>,
     is_notplayer |-> FALSE,
     my_peer_id |-> my_peer_id,
     inbound_model |-> EmptyMap,
     outbound_model |-> EmptyMap,
     updated_chunks |-> {},
     authority_map |-> EmptyMap,
     chunk_storage |-> chunk_storage,
     chunk_state |-> NoStates,
     emitted_messages |-> <<>>,
     current_update |-> 0,
     chunk_last_update |-> EmptyMap,
     last_request_priority |-> EmptyMap,
     world_num |-> 0,
     durabilities |-> NoDurabilities,
     log |-> <<>>]

EvHandle(source, msg) == [ev |-> "handle", source |-> source, msg |-> msg]
EvEmit(dst, msg) == [ev |-> "emit", dst |-> dst, msg |-> msg]

(***************************************************************************)
(* WorldModel (world_model.rs is not among the sources): a model maps a    *)
(* chunk to its content, None when it does not hold the chunk.             *)
(***************************************************************************)
get_chunk_data(model, chunk) == model[chunk]
apply_chunk_data(model, chunk, data) == [model EXCEPT ![chunk] = Some(data)]
apply_chunk_delta(model, delta) ==
    [model EXCEPT ![delta.chunk_coord] = Some(delta.data)]
forget_chunk(model, chunk) == [model EXCEPT ![chunk] = None]
\* apply_noita_update: the simulator's pixels replace the chunk's content.
apply_noita_update(model, chunk, data) == [model EXCEPT ![chunk] = Some(data)]
\* get_chunk_delta(chunk, false): the changes of a chunk the model holds.
get_chunk_delta(model, chunk) ==
    IF model[chunk] = None THEN None ELSE Some(Delta(chunk, model[chunk][1]))

(***************************************************************************)
(* emit_msg and handle_msg                                                 *)
(***************************************************************************)
RECURSIVE EmitMsg(_, _, _)
RECURSIVE HandleMsg(_, _, _)
RECURSIVE EmitAll(_, _)

\* for (dst, msg) in emit_queue { self.emit_msg(dst, msg) }
EmitAll(w, emit_queue) ==
    IF emit_queue = <<>> THEN w
    ELSE EmitAll(EmitMsg(w, emit_queue[1].dst, emit_queue[1].msg), Tail(emit_queue))

Emission(dst, msg) == [dst |-> dst, msg |-> msg]

SetState(w, chunk, state) == [w EXCEPT !.chunk_state[chunk] = state]

\* Variants of emit_got_authority as a slip would leave it, which the
\* properties below tell from the code: one forgets to record the new owner,
\* the other takes the granted data out of chunk_storage.
emit_got_authority_unrecorded(w, chunk, source, priority) ==
    LET auth == w.authority_map[chunk]
        chunk_data == IF auth = None \/ auth[1] # source
                      THEN w.chunk_storage[chunk]
                      ELSE None
    IN  EmitMsg(w, DstPeer(source), MGotAuthority(chunk, chunk_data, priority))

emit_got_authority_taking(w, chunk, source, priority) ==
    LET auth == w.authority_map[chunk]
        w1 == [w EXCEPT !.authority_map[chunk] = <<source, priority>>]
        chunk_data == IF auth = None \/ auth[1] # source
                      THEN w.chunk_storage[chunk]
                      ELSE None
        w2 == IF chunk_data # None
              THEN [w1 EXCEPT !.chunk_storage[chunk] = None]
              ELSE w1
    IN  EmitMsg(w2, DstPeer(source), MGotAuthority(chunk, chunk_data, priority))

\* A variant of emit_got_authority that sends the stored data with every
\* grant.
emit_got_authority_resending(w, chunk, source, priority) ==
    LET w1 == [w EXCEPT !.authority_map[chunk] = <<source, priority>>]
    IN  EmitMsg(w1, DstPeer(source),
                MGotAuthority(chunk, w.chunk_storage[chunk], priority))

\* A variant of emit_got_authority that withholds the stored data whenever
\* the chunk has an owner.
emit_got_authority_withholding(w, chunk, source, priority) ==
    LET auth == w.authority_map[chunk]
        w1 == [w EXCEPT !.authority_map[chunk] = <<source, priority>>]
        chunk_data == IF auth = None THEN w.chunk_storage[chunk] ELSE None
    IN  EmitMsg(w1, DstPeer(source), MGotAuthority(chunk, chunk_data, priority))

emit_got_authority(w, chunk, source, priority) ==
    LET auth == w.authority_map[chunk]
        w1 == [w EXCEPT !.authority_map[chunk] = <<source, priority>>]
        chunk_data == IF auth = None \/ auth[1] # source
                      THEN w.chunk_storage[chunk]
                      ELSE None
    IN  EmitMsg(w1, DstPeer(source), MGotAuthority(chunk, chunk_data, priority))

\* A variant of emit_transfer_authority that leaves the previous owner in
\* authority_map.
emit_transfer_authority_unrecorded(w, chunk, source, priority, current_authority) ==
    EmitMsg(w, DstPeer(source), MGetAuthorityFrom(chunk, current_authority))

emit_transfer_authority(w, chunk, source, priority, current_authority) ==
    LET w1 == [w EXCEPT !.authority_map[chunk] = <<source, priority>>]
    IN  EmitMsg(w1, DstPeer(source), MGetAuthorityFrom(chunk, current_authority))

\* A variant of the RequestAuthority handler that also starts a pull-transfer
\* for a request at the owner's priority.
HandleRequestAuthority_tie(w, source, msg) ==
    IF ~w.is_host THEN w
    ELSE LET current_authority == w.authority_map[msg.chunk]
         IN  IF current_authority # None
             THEN IF source = current_authority[1]
                  THEN emit_got_authority(w, msg.chunk, source, msg.priority)
                  ELSE IF current_authority[2] >= msg.priority /\ ~msg.can_wait
                  THEN emit_transfer_authority(w, msg.chunk, source, msg.priority,
                                               current_authority[1])
                  ELSE EmitMsg(w, DstPeer(source),
                               MAuthorityAlreadyTaken(msg.chunk, current_authority[1]))
             ELSE emit_got_authority(w, msg.chunk, source, msg.priority)

HandleRequestAuthority(w, source, msg) ==
    IF ~w.is_host THEN w
    ELSE LET current_authority == w.authority_map[msg.chunk]
         IN  IF current_authority # None
             THEN IF source = current_authority[1]
                  THEN emit_got_authority(w, msg.chunk, source, msg.priority)
                  ELSE IF current_authority[2] > msg.priority /\ ~msg.can_wait
                  THEN emit_transfer_authority(w, msg.chunk, source, msg.priority,
                                               current_authority[1])
                  ELSE EmitMsg(w, DstPeer(source),
                               MAuthorityAlreadyTaken(msg.chunk, current_authority[1]))
             ELSE emit_got_authority(w, msg.chunk, source, msg.priority)

HandleAskForAuthority(w, source, msg) ==
    LET w1 == EmitMsg(w, DstHost, MRequestAuthority(msg.chunk, msg.priority, FALSE))
    IN  SetState(w1, msg.chunk, StWaitingForAuthority)

\* A variant of the LoseAuthority handler in which the latest contender
\* replaces the pending one whatever their priorities.
HandleLoseAuthority_latest(w, source, msg) ==
    LET st == w.chunk_state[msg.chunk]
    IN  IF st.kind # "Authority" THEN w
        ELSE IF msg.new_authority = w.my_peer_id
        THEN SetState(w, msg.chunk, [st EXCEPT !.new_authority = None])
        ELSE SetState(w, msg.chunk,
               [st EXCEPT !.new_authority = <<msg.new_authority, msg.new_priority>>])

\* A variant of the LoseAuthority handler that keeps the pending successor
\* when the message names the authority itself.
HandleLoseAuthority_keeping(w, source, msg) ==
    LET st == w.chunk_state[msg.chunk]
    IN  IF st.kind # "Authority" \/ msg.new_authority = w.my_peer_id THEN w
        ELSE IF st.new_authority # None
        THEN IF st.new_authority[2] > msg.new_priority
             THEN SetState(w, msg.chunk,
                    [st EXCEPT !.new_authority = <<msg.new_authority, msg.new_priority>>])
             ELSE w
        ELSE SetState(w, msg.chunk,
               [st EXCEPT !.new_authority = <<msg.new_authority, msg.new_priority>>])

HandleLoseAuthority(w, source, msg) ==
    LET st == w.chunk_state[msg.chunk]
    IN  IF st.kind # "Authority" THEN w
        ELSE IF msg.new_authority = w.my_peer_id
        THEN SetState(w, msg.chunk, [st EXCEPT !.new_authority = None])
        ELSE IF st.new_authority # None
        THEN IF st.new_authority[2] > msg.new_priority
             THEN SetState(w, msg.chunk,
                    [st EXCEPT !.new_authority = <<msg.new_authority, msg.new_priority>>])
             ELSE w
        ELSE SetState(w, msg.chunk,
               [st EXCEPT !.new_authority = <<msg.new_authority, msg.new_priority>>])

HandleChangePriority(w, source, msg) ==
    IF ~w.is_host THEN w
    ELSE LET current_authority == w.authority_map[msg.chunk]
         IN  IF current_authority # None /\ source = current_authority[1]
             THEN [w EXCEPT !.authority_map[msg.chunk] = <<source, msg.priority>>]
             ELSE w

HandleGotAuthority(w, source, msg) ==
    LET w1 == [w EXCEPT !.chunk_state[msg.chunk] = authority(msg.priority),
                        !.last_request_priority[msg.chunk] = None]
    IN  IF msg.chunk_data # None
        THEN [w1 EXCEPT
                !.inbound_model = apply_chunk_data(@, msg.chunk, msg.chunk_data[1]),
                !.outbound_model = apply_chunk_data(@, msg.chunk, msg.chunk_data[1])]
        ELSE w1

\* A variant of the UpdateStorage handler without the host check.
HandleUpdateStorage_anyone(w, source, msg) ==
    IF msg.world_num # w.world_num THEN w
    ELSE IF msg.chunk_data # None
    THEN [w EXCEPT !.chunk_storage[msg.chunk] = msg.chunk_data]
    ELSE w

HandleUpdateStorage(w, source, msg) ==
    IF ~w.is_host THEN w
    ELSE IF msg.world_num # w.world_num THEN w
    ELSE IF msg.chunk_data # None
    THEN [w EXCEPT !.chunk_storage[msg.chunk] = msg.chunk_data]
    ELSE w

\* A variant of the RelinquishAuthority handler without the check of the
\* sender against authority_map.
HandleRelinquishAuthority_unchecked(w, source, msg) ==
    IF ~w.is_host THEN w
    ELSE IF msg.world_num # w.world_num THEN w
    ELSE LET w1 == [w EXCEPT !.authority_map[msg.chunk] = None]
             w2 == IF msg.chunk_data # None
                   THEN [w1 EXCEPT !.chunk_storage[msg.chunk] = msg.chunk_data]
                   ELSE w1
         IN  EmitMsg(w2, DstBroadcast, MListenAuthorityRelinquished(msg.chunk))

HandleRelinquishAuthority(w, source, msg) ==
    IF ~w.is_host THEN w
    ELSE IF msg.world_num # w.world_num THEN w
    ELSE IF w.authority_map[msg.chunk] # None /\ w.authority_map[msg.chunk][1] # source
    THEN w
    ELSE LET w1 == [w EXCEPT !.authority_map[msg.chunk] = None]
             w2 == IF msg.chunk_data # None
                   THEN [w1 EXCEPT !.chunk_storage[msg.chunk] = msg.chunk_data]
                   ELSE w1
         IN  EmitMsg(w2, DstBroadcast, MListenAuthorityRelinquished(msg.chunk))

HandleUnloadChunk(w, source, msg) == SetState(w, msg.chunk, StUnloadPending)

HandleAuthorityAlreadyTaken(w, source, msg) ==
    LET w1 == EmitMsg(w, DstPeer(msg.authority), MListenRequest(msg.chunk))
    IN  [w1 EXCEPT !.last_request_priority[msg.chunk] = None]

\* A variant of the ListenRequest handler that lets a request to a
\* non-authority go unanswered.
HandleListenRequest_silent(w, source, msg) ==
    LET st == w.chunk_state[msg.chunk]
    IN  IF st.kind # "Authority" THEN w
        ELSE LET w1 == SetState(w, msg.chunk,
                         [st EXCEPT !.listeners = @ \cup {source}])
                 chunk_data == get_chunk_data(w1.outbound_model, msg.chunk)
             IN  EmitMsg(w1, DstPeer(source),
                         MListenInitialResponse(msg.chunk, chunk_data, st.priority))

HandleListenRequest(w, source, msg) ==
    LET st == w.chunk_state[msg.chunk]
    IN  IF st.kind # "Authority"
        THEN EmitMsg(w, DstPeer(source), MUnloadChunk(msg.chunk))
        ELSE LET w1 == SetState(w, msg.chunk,
                         [st EXCEPT !.listeners = @ \cup {source}])
                 chunk_data == get_chunk_data(w1.outbound_model, msg.chunk)
             IN  EmitMsg(w1, DstPeer(source),
                         MListenInitialResponse(msg.chunk, chunk_data, st.priority))

HandleListenStopRequest(w, source, msg) ==
    LET st == w.chunk_state[msg.chunk]
    IN  IF st.kind # "Authority" THEN w
        ELSE SetState(w, msg.chunk, [st EXCEPT !.listeners = @ \ {source}])

HandleListenInitialResponse(w, source, msg) ==
    LET w1 == SetState(w, msg.chunk, StListening(source, msg.priority))
    IN  IF msg.chunk_data # None
        THEN [w1 EXCEPT !.inbound_model = apply_chunk_data(@, msg.chunk, msg.chunk_data[1])]
        ELSE w1

ApplyInboundDelta(w, delta) ==
    [w EXCEPT !.inbound_model = apply_chunk_delta(@, delta)]

HandleListenUpdate(w, source, msg) ==
    LET chunk == msg.delta.chunk_coord
        st == w.chunk_state[chunk]
    IN  IF st.kind = "Listening"
        THEN LET w1 == SetState(w, chunk, [st EXCEPT !.priority = msg.priority])
                 w2 == IF msg.take_auth
                       THEN EmitMsg(w1, DstPeer(source),
                                    MLoseAuthority(chunk, msg.priority, source))
                       ELSE w1
             IN  ApplyInboundDelta(w2, msg.delta)
        ELSE IF st.kind = "WantToGetAuth"
        THEN LET w1 ==
                   IF msg.priority > st.my_priority
                   THEN IF msg.take_auth
                        THEN SetState(
                               EmitMsg(w, DstHost,
                                       MRequestAuthority(chunk, st.my_priority, FALSE)),
                               chunk, StWaitingForAuthority)
                        ELSE w
                   ELSE SetState(w, chunk, StListening(st.authority, msg.priority))
             IN  ApplyInboundDelta(w1, msg.delta)
        ELSE IF msg.take_auth
        THEN ApplyInboundDelta(
               EmitMsg(w, DstPeer(source), MLoseAuthority(chunk, msg.priority, source)),
               msg.delta)
        ELSE w

RECURSIVE HandleChunkPacketFrom(_, _)
HandleChunkPacketFrom(w, chunkpacket) ==
    IF chunkpacket = <<>> THEN w
    ELSE LET delta == chunkpacket[1][1]
             priority == chunkpacket[1][2]
             chunk == delta.chunk_coord
             st == w.chunk_state[chunk]
             w1 == IF st.kind = "Listening"
                   THEN ApplyInboundDelta(
                          SetState(w, chunk, [st EXCEPT !.priority = priority]), delta)
                   ELSE IF st.kind = "WantToGetAuth"
                   THEN ApplyInboundDelta(
                          IF priority <= st.my_priority
                          THEN SetState(w, chunk, StListening(st.authority, priority))
                          ELSE w,
                          delta)
                   ELSE w
         IN  HandleChunkPacketFrom(w1, Tail(chunkpacket))

HandleChunkPacket(w, source, msg) == HandleChunkPacketFrom(w, msg.chunkpacket)

\* A variant of the ListenAuthorityRelinquished handler that unloads nothing.
HandleListenAuthorityRelinquished_ignoring(w, source, msg) == w

HandleListenAuthorityRelinquished(w, source, msg) ==
    SetState(w, msg.chunk, StUnloadPending)

HandleGetAuthorityFrom(w, source, msg) ==
    IF w.chunk_state[msg.chunk] # StUnloadPending
    THEN EmitMsg(SetState(w, msg.chunk, StTransfer),
                 DstPeer(msg.current_authority), MRequestAuthorityTransfer(msg.chunk))
    ELSE EmitMsg(w, DstHost, MRelinquishAuthority(msg.chunk, None, w.world_num))

\* RequestAuthorityTransfer answered without giving the chunk up.
HandleRequestAuthorityTransfer_staying(w, source, msg) ==
    LET st == w.chunk_state[msg.chunk]
    IN  IF st.kind = "Authority"
        THEN LET chunk_data == get_chunk_data(w.outbound_model, msg.chunk)
                 w1 == EmitMsg(w, DstPeer(source),
                               MTransferOk(msg.chunk, chunk_data, st.listeners))
                 w2 == w1
             IN  EmitMsg(w2, DstHost,
                         MUpdateStorage(msg.chunk,
                                        get_chunk_data(w2.outbound_model, msg.chunk),
                                        w2.world_num))
        ELSE EmitMsg(w, DstPeer(source), MTransferFailed(msg.chunk))

HandleRequestAuthorityTransfer(w, source, msg) ==
    LET st == w.chunk_state[msg.chunk]
    IN  IF st.kind = "Authority"
        THEN LET chunk_data == get_chunk_data(w.outbound_model, msg.chunk)
                 w1 == EmitMsg(w, DstPeer(source),
                               MTransferOk(msg.chunk, chunk_data, st.listeners))
                 w2 == SetState(w1, msg.chunk, StUnloadPending)
             IN  EmitMsg(w2, DstHost,
                         MUpdateStorage(msg.chunk,
                                        get_chunk_data(w2.outbound_model, msg.chunk),
                                        w2.world_num))
        ELSE EmitMsg(w, DstPeer(source), MTransferFailed(msg.chunk))

\* A set in the order a loop over it takes (any fixed one).
RECURSIVE SeqOfSet(_)
SeqOfSet(S) ==
    IF S = {} THEN <<>>
    ELSE LET x == CHOOSE y \in S : TRUE IN <<x>> \o SeqOfSet(S \ {x})

NotifyQueue(chunk, listeners) ==
    LET order == SeqOfSet(listeners)
    IN  [i \in 1..Len(order) |-> Emission(DstPeer(order[i]), MNotifyNewAuthority(chunk))]

\* A variant of the TransferOk handler that starts, as a grant does, with no
\* listener.
HandleTransferOk_forgetting(w, source, msg) ==
    LET w1 == IF msg.chunk_data # None
              THEN [w EXCEPT
                      !.inbound_model = apply_chunk_data(@, msg.chunk, msg.chunk_data[1]),
                      !.outbound_model = apply_chunk_data(@, msg.chunk, msg.chunk_data[1])]
              ELSE w
        w2 == EmitAll(w1, NotifyQueue(msg.chunk, msg.listeners))
        priority == IF w2.last_request_priority[msg.chunk] # None
                    THEN w2.last_request_priority[msg.chunk][1]
                    ELSE 0
    IN  [w2 EXCEPT !.chunk_state[msg.chunk] = authority(priority),
                   !.last_request_priority[msg.chunk] = None]

HandleTransferOk(w, source, msg) ==
    LET w1 == IF msg.chunk_data # None
              THEN [w EXCEPT
                      !.inbound_model = apply_chunk_data(@, msg.chunk, msg.chunk_data[1]),
                      !.outbound_model = apply_chunk_data(@, msg.chunk, msg.chunk_data[1])]
              ELSE w
        w2 == EmitAll(w1, NotifyQueue(msg.chunk, msg.listeners))
        priority == IF w2.last_request_priority[msg.chunk] # None
                    THEN w2.last_request_priority[msg.chunk][1]
                    ELSE 0
    IN  [w2 EXCEPT !.chunk_state[msg.chunk] =
                       StAuthority(msg.listeners, priority, None, FALSE),
                   !.last_request_priority[msg.chunk] = None]

HandleTransferFailed(w, source, msg) ==
    LET priority == IF w.last_request_priority[msg.chunk] # None
                    THEN w.last_request_priority[msg.chunk][1]
                    ELSE 255
    IN  SetState(w, msg.chunk, StRequestAuthority(priority, TRUE))

HandleNotifyNewAuthority(w, source, msg) ==
    LET st == w.chunk_state[msg.chunk]
    IN  IF st.kind = "Listening"
        THEN SetState(w, msg.chunk, [st EXCEPT !.authority = source])
        ELSE w

HandleMsg(w0, source, msg) ==
    LET w == [w0 EXCEPT !.log = Append(@, EvHandle(source, msg))]
    IN  CASE msg.type = "RequestAuthority" -> HandleRequestAuthority(w, source, msg)
          [] msg.type = "AskForAuthority" -> HandleAskForAuthority(w, source, msg)
          [] msg.type = "LoseAuthority" -> HandleLoseAuthority(w, source, msg)
          [] msg.type = "ChangePriority" -> HandleChangePriority(w, source, msg)
          [] msg.type = "GotAuthority" -> HandleGotAuthority(w, source, msg)
          [] msg.type = "UpdateStorage" -> HandleUpdateStorage(w, source, msg)
          [] msg.type = "RelinquishAuthority" -> HandleRelinquishAuthority(w, source, msg)
          [] msg.type = "UnloadChunk" -> HandleUnloadChunk(w, source, msg)
          [] msg.type = "AuthorityAlreadyTaken" ->
                 HandleAuthorityAlreadyTaken(w, source, msg)
          [] msg.type = "ListenRequest" -> HandleListenRequest(w, source, msg)
          [] msg.type = "ListenStopRequest" -> HandleListenStopRequest(w, source, msg)
          [] msg.type = "ListenInitialResponse" ->
                 HandleListenInitialResponse(w, source, msg)
          [] msg.type = "ListenUpdate" -> HandleListenUpdate(w, source, msg)
          [] msg.type = "ChunkPacket" -> HandleChunkPacket(w, source, msg)
          [] msg.type = "ListenAuthorityRelinquished" ->
                 HandleListenAuthorityRelinquished(w, source, msg)
          [] msg.type = "GetAuthorityFrom" -> HandleGetAuthorityFrom(w, source, msg)
          [] msg.type = "RequestAuthorityTransfer" ->
                 HandleRequestAuthorityTransfer(w, source, msg)
          [] msg.type = "TransferOk" -> HandleTransferOk(w, source, msg)
          [] msg.type = "TransferFailed" -> HandleTransferFailed(w, source, msg)
          [] msg.type = "NotifyNewAuthority" -> HandleNotifyNewAuthority(w, source, msg)

\* A variant of emit_msg that also queues the messages it handles inline.
EmitMsg_queueing(w0, dst, msg) ==
    LET w == [w0 EXCEPT !.log = Append(@, EvEmit(dst, msg))]
        w1 == IF \/ w.is_host /\ dst = DstHost
                 \/ dst = DstPeer(w.my_peer_id)
                 \/ dst = DstBroadcast
              THEN HandleMsg(w, w.my_peer_id, msg)
              ELSE w
    IN  [w1 EXCEPT !.emitted_messages = Append(@, Emission(dst, msg))]

EmitMsg(w0, dst, msg) ==
    LET w == [w0 EXCEPT !.log = Append(@, EvEmit(dst, msg))]
    IN  IF (w.is_host /\ dst = DstHost) \/ dst = DstPeer(w.my_peer_id)
        THEN HandleMsg(w, w.my_peer_id, msg)
        ELSE LET w1 == IF dst = DstBroadcast
                       THEN HandleMsg(w, w.my_peer_id, msg)
                       ELSE w
             IN  [w1 EXCEPT !.emitted_messages = Append(@, Emission(dst, msg))]

(***************************************************************************)
(* add_update, add_end, chunk_updated_locally                              *)
(***************************************************************************)
\* The outbound model's change tracking: updated_chunks holds the chunks
\* written since the last reset_change_tracking; forget_chunk drops one.
add_update(w, chunk, data) ==
    [w EXCEPT !.outbound_model = apply_noita_update(@, chunk, data),
              !.updated_chunks = @ \cup {chunk}]

\* A variant of reset() that restarts the frame counter as well.
reset_counting(w) ==
    [w EXCEPT !.inbound_model = EmptyMap,
              !.outbound_model = EmptyMap,
              !.updated_chunks = {},
              !.chunk_storage = EmptyMap,
              !.authority_map = EmptyMap,
              !.chunk_last_update = EmptyMap,
              !.chunk_state = NoStates,
              !.current_update = 0]

reset(w) ==
    [w EXCEPT !.inbound_model = EmptyMap,
              !.outbound_model = EmptyMap,
              !.updated_chunks = {},
              !.chunk_storage = EmptyMap,
              !.authority_map = EmptyMap,
              !.chunk_last_update = EmptyMap,
              !.chunk_state = NoStates]

\* get_noita_updates: with NP_WORLD_SYNC_TEST set (sync_test), every tenth
\* frame applies random chunk data to chunk (0, 0) of the inbound model;
\* the updates handed to the simulator and the inbound model's change
\* tracking are outside the modelled state.
get_noita_updates(w, sync_test, chunk_data) ==
    IF sync_test /\ w.current_update % 10 = 0
    THEN [w EXCEPT !.inbound_model = apply_chunk_data(@, <<0, 0>>, chunk_data)]
    ELSE w

\* Lines 268-279 of chunk_updated_locally: the position and world number.
UpdatePosition(w, pos) ==
    IF Len(pos) = 6
    THEN LET w1 == [w EXCEPT !.my_pos = <<pos[1], pos[2]>>,
                             !.cam_pos = <<pos[3], pos[4]>>,
                             !.is_notplayer = (pos[5] = 1)]
         IN  IF w1.world_num # pos[6]
             THEN reset([w1 EXCEPT !.world_num = pos[6]])
             ELSE w1
    ELSE IF w.world_num # pos[1]
    THEN reset([w EXCEPT !.world_num = pos[1]])
    ELSE w

\* The loop over the listeners of an Authority (lines 364-388), taken in the
\* order `order`; acc is [emit_queue, chunks_to_send, new_auth_got].
RECURSIVE ListenerLoop(_, _, _, _, _)
ListenerLoop(order, new_auth, delta, priority, acc) ==
    IF order = <<>> THEN acc
    ELSE LET listener == order[1]
             take_auth == (new_auth = Some(listener))
             acc1 == IF take_auth
                     THEN [emit_queue |->
                             Append(acc.emit_queue,
                                    Emission(DstPeer(listener),
                                             MListenUpdate(delta, priority, TRUE))),
                           chunks_to_send |-> <<>>,
                           new_auth_got |-> TRUE]
                     ELSE [acc EXCEPT !.chunks_to_send =
                                          Append(@, <<listener, priority>>)]
         IN  ListenerLoop(Tail(order), new_auth, delta, priority, acc1)

\* The Authority arm with the listener loop run whatever stop_sending is.
UpdatedLocallyAuthority_sending(w, chunk, priority, ord) ==
    LET st == w.chunk_state[chunk]
        delta == get_chunk_delta(w.outbound_model, chunk)
        queue0 == IF st.priority # priority
                  THEN <<Emission(DstHost, MChangePriority(chunk, priority))>>
                  ELSE <<>>
        cleared == st.new_authority = None \/ st.new_authority[2] >= priority
        new_auth == IF cleared THEN None ELSE Some(st.new_authority[1])
        new_authority == IF cleared THEN None ELSE st.new_authority
        stop_sending == IF cleared THEN FALSE ELSE st.stop_sending
        order == SelectSeq(ord, LAMBDA l : l \in st.listeners)
        loop == IF TRUE
                THEN ListenerLoop(order, new_auth, delta[1], priority,
                                  [emit_queue |-> queue0, chunks_to_send |-> <<>>,
                                   new_auth_got |-> FALSE])
                ELSE [emit_queue |-> queue0, chunks_to_send |-> <<>>,
                      new_auth_got |-> FALSE]
        st1 == [st EXCEPT !.priority = priority,
                          !.new_authority = new_authority,
                          !.stop_sending =
                              IF loop.new_auth_got /\ new_auth # None
                              THEN TRUE ELSE stop_sending]
    IN  IF delta = None
        THEN [w |-> w, chunks_to_send |-> <<>>]
        ELSE [w |-> EmitAll(SetState(w, chunk, st1), loop.emit_queue),
              chunks_to_send |-> loop.chunks_to_send]

\* The Authority arm of chunk_updated_locally (lines 337-389); the result is
\* [w, chunks_to_send].
UpdatedLocallyAuthority(w, chunk, priority, ord) ==
    LET st == w.chunk_state[chunk]
        delta == get_chunk_delta(w.outbound_model, chunk)
        queue0 == IF st.priority # priority
                  THEN <<Emission(DstHost, MChangePriority(chunk, priority))>>
                  ELSE <<>>
        cleared == st.new_authority = None \/ st.new_authority[2] >= priority
        new_auth == IF cleared THEN None ELSE Some(st.new_authority[1])
        new_authority == IF cleared THEN None ELSE st.new_authority
        stop_sending == IF cleared THEN FALSE ELSE st.stop_sending
        order == SelectSeq(ord, LAMBDA l : l \in st.listeners)
        loop == IF ~stop_sending
                THEN ListenerLoop(order, new_auth, delta[1], priority,
                                  [emit_queue |-> queue0, chunks_to_send |-> <<>>,
                                   new_auth_got |-> FALSE])
                ELSE [emit_queue |-> queue0, chunks_to_send |-> <<>>,
                      new_auth_got |-> FALSE]
        st1 == [st EXCEPT !.priority = priority,
                          !.new_authority = new_authority,
                          !.stop_sending =
                              IF loop.new_auth_got /\ new_auth # None
                              THEN TRUE ELSE stop_sending]
    IN  IF delta = None
        THEN [w |-> w, chunks_to_send |-> <<>>]
        ELSE [w |-> EmitAll(SetState(w, chunk, st1), loop.emit_queue),
              chunks_to_send |-> loop.chunks_to_send]

\* A variant of chunk_updated_locally in which a Listening peer contends at
\* equal priority as well.
chunk_updated_locally_tie(w0, chunk, priority, pos, ord) ==
    LET wp == UpdatePosition(w0, pos)
        w1 == IF wp.chunk_state[chunk] = NoState
              THEN SetState(wp, chunk, StRequestAuthority(priority, TRUE))
              ELSE wp
        w == [w1 EXCEPT !.chunk_last_update[chunk] = Some(w1.current_update)]
        st == w.chunk_state[chunk]
    IN  IF st.kind = "Listening"
        THEN IF st.priority >= priority
             THEN [w |-> EmitMsg(
                            SetState(w, chunk,
                                     StWantToGetAuth(st.authority, st.priority, priority)),
                            DstPeer(st.authority),
                            MLoseAuthority(chunk, priority, w.my_peer_id)),
                   chunks_to_send |-> <<>>]
             ELSE [w |-> w, chunks_to_send |-> <<>>]
        ELSE IF st.kind = "WantToGetAuth"
        THEN IF st.my_priority # priority
             THEN IF st.auth_priority <= priority
                  THEN [w |-> SetState(w, chunk,
                                       StListening(st.authority, st.auth_priority)),
                        chunks_to_send |-> <<>>]
                  ELSE [w |-> EmitMsg(
                                 SetState(w, chunk, [st EXCEPT !.my_priority = priority]),
                                 DstPeer(st.authority),
                                 MLoseAuthority(chunk, priority, w.my_peer_id)),
                        chunks_to_send |-> <<>>]
             ELSE [w |-> w, chunks_to_send |-> <<>>]
        ELSE IF st.kind = "Authority"
        THEN UpdatedLocallyAuthority(w, chunk, priority, ord)
        ELSE [w |-> w, chunks_to_send |-> <<>>]

chunk_updated_locally(w0, chunk, priority, pos, ord) ==
    LET wp == UpdatePosition(w0, pos)
        w1 == IF wp.chunk_state[chunk] = NoState
              THEN SetState(wp, chunk, StRequestAuthority(priority, TRUE))
              ELSE wp
        w == [w1 EXCEPT !.chunk_last_update[chunk] = Some(w1.current_update)]
        st == w.chunk_state[chunk]
    IN  IF st.kind = "Listening"
        THEN IF st.priority > priority
             THEN [w |-> EmitMsg(
                            SetState(w, chunk,
                                     StWantToGetAuth(st.authority, st.priority, priority)),
                            DstPeer(st.authority),
                            MLoseAuthority(chunk, priority, w.my_peer_id)),
                   chunks_to_send |-> <<>>]
             ELSE [w |-> w, chunks_to_send |-> <<>>]
        ELSE IF st.kind = "WantToGetAuth"
        THEN IF st.my_priority # priority
             THEN IF st.auth_priority <= priority
                  THEN [w |-> SetState(w, chunk,
                                       StListening(st.authority, st.auth_priority)),
                        chunks_to_send |-> <<>>]
                  ELSE [w |-> EmitMsg(
                                 SetState(w, chunk, [st EXCEPT !.my_priority = priority]),
                                 DstPeer(st.authority),
                                 MLoseAuthority(chunk, priority, w.my_peer_id)),
                        chunks_to_send |-> <<>>]
             ELSE [w |-> w, chunks_to_send |-> <<>>]
        ELSE IF st.kind = "Authority"
        THEN UpdatedLocallyAuthority(w, chunk, priority, ord)
        ELSE [w |-> w, chunks_to_send |-> <<>>]

\* for chunk in updated_chunks { chunks_to_send.push(chunk_updated_locally(..)) }
RECURSIVE UpdatedLocallyAll(_, _, _, _, _, _)
UpdatedLocallyAll(w, updated, priority, pos, ord, sends) ==
    IF updated = <<>> THEN [w |-> w, sends |-> sends]
    ELSE LET r == chunk_updated_locally(w, updated[1], priority, pos, ord)
         IN  UpdatedLocallyAll(r.w, Tail(updated), priority, pos, ord,
                               Append(sends, r.chunks_to_send))

\* The (delta, priority) pairs of chunk_packet[peer] (lines 237-248).
RECURSIVE PacketFor(_, _, _, _)
PacketFor(w, peer, updated, sends) ==
    IF updated = <<>> THEN <<>>
    ELSE LET delta == get_chunk_delta(w.outbound_model, updated[1])
             mine == SelectSeq(sends[1], LAMBDA e : e[1] = peer)
             here == IF delta = None THEN <<>>
                     ELSE [i \in 1..Len(mine) |-> <<delta[1], mine[i][2]>>]
         IN  here \o PacketFor(w, peer, Tail(updated), Tail(sends))

\* Lines 237-259 of add_end: the packets built from chunks_to_send and sent
\* to each receiver; r is [w, sends] as the loop of lines 231-236 left them.
\* elsewhere: a chunk outside Chunks was updated this frame too; of its
\* chunk_updated_locally call the model keeps the position update.
SendPackets(r, updated, pos, elsewhere, ord) ==
    LET w2 == IF elsewhere THEN UpdatePosition(r.w, pos) ELSE r.w
        packets == [q \in Peers |-> PacketFor(w2, q, updated, r.sends)]
        receivers == SelectSeq(ord, LAMBDA q : packets[q] # <<>>)
        emit_queue == [i \in 1..Len(receivers) |->
                         Emission(DstPeer(receivers[i]),
                                  MChunkPacket(packets[receivers[i]]))]
        w3 == EmitAll(w2, emit_queue)
    IN  [w3 EXCEPT !.updated_chunks = {}]

add_end(w0, priority, pos, elsewhere, ord) ==
    SendPackets(UpdatedLocallyAll([w0 EXCEPT !.current_update = @ + 1],
                                  SeqOfSet(w0.updated_chunks),
                                  priority, pos, ord, <<>>),
                SeqOfSet(w0.updated_chunks), pos, elsewhere, ord)

(***************************************************************************)
(* update                                                                  *)
(***************************************************************************)
Abs(n) == IF n < 0 THEN -n ELSE n

should_kill(my_pos, cam_pos, chx, chy, is_notplayer) ==
    LET x == my_pos[1]
        y == my_pos[2]
        cx == cam_pos[1]
        cy == cam_pos[2]
    IN  IF Abs(x - cx) > 2 \/ Abs(y - cy) > 2
        THEN ~(  (chx <= x + 2 /\ chx >= x - 2 /\ chy <= y + 2 /\ chy >= y - 2)
              \/ (chx <= cx + 2 /\ chx >= cx - 2 /\ chy <= cy + 2 /\ chy >= cy - 2))
        ELSE IF is_notplayer
        THEN ~(chx <= x + 2 /\ chx >= x - 2 /\ chy <= y + 2 /\ chy >= y - 2)
        ELSE ~(chx <= x + 3 /\ chx >= x - 3 /\ chy <= y + 3 /\ chy >= y - 3)

Kill(w, chunk) == should_kill(w.my_pos, w.cam_pos, chunk[1], chunk[2], w.is_notplayer)

\* The loop body without the AskForAuthority to a pending successor.
UpdateChunk_unasked(acc, chunk) ==
    LET w == acc.w
        st == w.chunk_state[chunk]
    IN  IF st.kind = "RequestAuthority"
        THEN [w |-> [w EXCEPT !.chunk_state[chunk] = StWaitingForAuthority,
                              !.last_request_priority[chunk] = Some(st.priority)],
              emit_queue |->
                  Append(acc.emit_queue,
                         Emission(DstHost,
                                  MRequestAuthority(chunk, st.priority, st.can_wait)))]
        ELSE IF st.kind = "WaitingForAuthority"
        THEN IF Kill(w, chunk)
             THEN [acc EXCEPT !.w = SetState(w, chunk, StUnloadPending)]
             ELSE acc
        ELSE IF st.kind = "Listening"
        THEN IF Kill(w, chunk)
             THEN [w |-> SetState(w, chunk, StUnloadPending),
                   emit_queue |->
                       Append(acc.emit_queue,
                              Emission(DstPeer(st.authority), MListenStopRequest(chunk)))]
             ELSE acc
        ELSE IF st.kind = "Authority"
        THEN IF Kill(w, chunk)
             THEN [w |-> SetState(w, chunk, StUnloadPending),
                   emit_queue |->
                       acc.emit_queue
                       \o <<>>
                       \o <<Emission(DstHost,
                                     MRelinquishAuthority(
                                        chunk,
                                        get_chunk_data(w.outbound_model, chunk),
                                        w.world_num))>>]
             ELSE acc
        ELSE IF st.kind = "WantToGetAuth"
        THEN IF Kill(w, chunk)
             THEN [acc EXCEPT !.w = SetState(w, chunk, StUnloadPending)]
             ELSE acc
        ELSE acc

\* One iteration of the loop over chunk_state (lines 418-511); acc is
\* [w, emit_queue].
UpdateChunk(acc, chunk) ==
    LET w == acc.w
        st == w.chunk_state[chunk]
    IN  IF st.kind = "RequestAuthority"
        THEN [w |-> [w EXCEPT !.chunk_state[chunk] = StWaitingForAuthority,
                              !.last_request_priority[chunk] = Some(st.priority)],
              emit_queue |->
                  Append(acc.emit_queue,
                         Emission(DstHost,
                                  MRequestAuthority(chunk, st.priority, st.can_wait)))]
        ELSE IF st.kind = "WaitingForAuthority"
        THEN IF Kill(w, chunk)
             THEN [acc EXCEPT !.w = SetState(w, chunk, StUnloadPending)]
             ELSE acc
        ELSE IF st.kind = "Listening"
        THEN IF Kill(w, chunk)
             THEN [w |-> SetState(w, chunk, StUnloadPending),
                   emit_queue |->
                       Append(acc.emit_queue,
                              Emission(DstPeer(st.authority), MListenStopRequest(chunk)))]
             ELSE acc
        ELSE IF st.kind = "Authority"
        THEN IF Kill(w, chunk)
             THEN [w |-> SetState(w, chunk, StUnloadPending),
                   emit_queue |->
                       acc.emit_queue
                       \o (IF st.new_authority # None
                           THEN <<Emission(DstPeer(st.new_authority[1]),
                                           MAskForAuthority(chunk, st.new_authority[2]))>>
                           ELSE <<>>)
                       \o <<Emission(DstHost,
                                     MRelinquishAuthority(
                                        chunk,
                                        get_chunk_data(w.outbound_model, chunk),
                                        w.world_num))>>]
             ELSE acc
        ELSE IF st.kind = "WantToGetAuth"
        THEN IF Kill(w, chunk)
             THEN [acc EXCEPT !.w = SetState(w, chunk, StUnloadPending)]
             ELSE acc
        ELSE acc

RECURSIVE UpdateLoop(_, _)
UpdateLoop(acc, chunks) ==
    IF chunks = <<>> THEN acc
    ELSE UpdateLoop(UpdateChunk(acc, chunks[1]), Tail(chunks))

\* self.chunk_state.retain(..) with forget_chunk on both models
RECURSIVE Retain(_, _)
Retain(w, chunks) ==
    IF chunks = <<>> THEN w
    ELSE LET chunk == chunks[1]
             w1 == IF w.chunk_state[chunk] = StUnloadPending
                   THEN [w EXCEPT !.chunk_state[chunk] = NoState,
                                  !.inbound_model = forget_chunk(@, chunk),
                                  !.outbound_model = forget_chunk(@, chunk),
                                  !.updated_chunks = @ \ {chunk}]
                   ELSE w
         IN  Retain(w1, Tail(chunks))

\* A variant of update() that removes the UnloadPending entries before it
\* flushes the emit queue.
update_retaining_first(w) ==
    LET loaded == SeqOfSet({c \in Chunks : w.chunk_state[c] # NoState})
        acc == UpdateLoop([w |-> w, emit_queue |-> <<>>], loaded)
        w1 == Retain(acc.w, SeqOfSet({c \in Chunks : acc.w.chunk_state[c] # NoState}))
    IN  EmitAll(w1, acc.emit_queue)

update(w) ==
    LET loaded == SeqOfSet({c \in Chunks : w.chunk_state[c] # NoState})
        acc == UpdateLoop([w |-> w, emit_queue |-> <<>>], loaded)
        w1 == EmitAll(acc.w, acc.emit_queue)
    IN  Retain(w1, SeqOfSet({c \in Chunks : w1.chunk_state[c] # NoState}))

(***************************************************************************)
(* handle_peer_left                                                        *)
(***************************************************************************)
\* A variant of handle_peer_left that announces the departure without
\* removing the departed owner from authority_map.
handle_peer_left_keeping(w, source) ==
    IF ~w.is_host THEN w
    ELSE LET owned == SeqOfSet({c \in Chunks :
                                  /\ w.authority_map[c] # None
                                  /\ w.authority_map[c][1] = source})
         IN  EmitAll(w, [i \in 1..Len(owned) |->
                           Emission(DstBroadcast,
                                    MListenAuthorityRelinquished(owned[i]))])

handle_peer_left(w, source) ==
    IF ~w.is_host THEN w
    ELSE LET owned == SeqOfSet({c \in Chunks :
                                  /\ w.authority_map[c] # None
                                  /\ w.authority_map[c][1] = source})
             pending_messages ==
                 [i \in 1..Len(owned) |->
                    Emission(DstBroadcast, MListenAuthorityRelinquished(owned[i]))]
             w1 == [w EXCEPT !.authority_map =
                      [c \in Chunks |->
                         IF @[c] # None /\ @[c][1] = source THEN None ELSE @[c]]]
         IN  EmitAll(w1, pending_messages)

(***************************************************************************)
(* The system: one manager per peer, one FIFO channel per ordered pair of  *)
(* peers.  After every entry point the caller drains emitted_messages      *)
(* (get_emitted_msgs) and hands them to the transport.                     *)
(***************************************************************************)
VARIABLES
    wm,     \* peer -> its WorldManager
    net,    \* <<from, to>> -> messages in flight, oldest first
    final,  \* history: chunk -> [from, data], the peer that last stopped being
            \* Authority for the chunk and the content its outbound model held
    left,   \* the pairs <<q, p>> such that q's manager has run
            \* handle_peer_left(p)
    offered, \* history: the triples <<p, q, c>> such that p has dispatched a
            \* ListenUpdate{take_auth = true} for chunk c to q
    done    \* history: the terraform call made last, with its arguments, the
            \* manager it was made on and, for do_ray, what it returned

vars == <<wm, net, final, left, offered, done>>

Links == {l \in Peers \X Peers : l[1] # l[2]}

\* The peers the transport delivers a message for dst to.
Targets(p, dst) ==
    IF dst = DstHost THEN {Host}
    ELSE IF dst = DstBroadcast THEN Peers \ {p}
    ELSE {dst.peer}

RECURSIVE Route(_, _, _)
Route(n, p, emitted) ==
    IF emitted = <<>> THEN n
    ELSE LET to == Targets(p, emitted[1].dst)
             n1 == [l \in Links |->
                      IF l[1] = p /\ l[2] \in to
                      THEN Append(n[l], emitted[1].msg)
                      ELSE n[l]]
         IN  Route(n1, p, Tail(emitted))

\* get_emitted_msgs
get_emitted_msgs(w) == [w EXCEPT !.emitted_messages = <<>>, !.log = <<>>]

IsAuthority(w, chunk) == w.chunk_state[chunk].kind = "Authority"

\* Peer p's manager becomes w; what it emitted goes to the channels n.
Outcome(n, p, w) ==
    /\ wm' = [wm EXCEPT ![p] = get_emitted_msgs(w)]
    /\ net' = Route(n, p, w.emitted_messages)
    /\ final' = [c \in Chunks |->
                   IF IsAuthority(wm[p], c) /\ ~IsAuthority(w, c)
                   THEN [from |-> p, data |-> wm[p].outbound_model[c]]
                   ELSE final[c]]

\* The hand-off offers among the messages w emitted (lines 370-378).
Offers(p, w) ==
    {<<p, w.log[i].dst.peer, w.log[i].msg.delta.chunk_coord>> :
        i \in {j \in 1..Len(w.log) : /\ w.log[j].ev = "emit"
                                     /\ w.log[j].msg.type = "ListenUpdate"
                                     /\ w.log[j].msg.take_auth}}

Finish(n, p, w) ==
    /\ Outcome(n, p, w)
    /\ offered' = offered \cup Offers(p, w)
    /\ UNCHANGED <<left, done>>

InitManagers == [p \in Peers |-> new(p = Host, p, EmptyMap)]
NoFinal == [c \in Chunks |-> [from |-> "", data |-> None]]

Init ==
    /\ wm = InitManagers
    /\ net = [l \in Links |-> <<>>]
    /\ final = NoFinal
    /\ left = {}
    /\ offered = {}
    /\ done = None

PeerOrders == {o \in [1..Cardinality(Peers) -> Peers] :
                  \A i, j \in 1..Cardinality(Peers) : i # j => o[i] # o[j]}
AnyOrder == CHOOSE o \in PeerOrders : TRUE
\* The iteration order of a listener set matters to add_end only when some
\* Authority has two listeners or more.
OrdersFor(w) ==
    IF \E c \in Chunks : /\ w.chunk_state[c].kind = "Authority"
                         /\ Cardinality(w.chunk_state[c].listeners) >= 2
    THEN PeerOrders
    ELSE {AnyOrder}

RECURSIVE SumFrames(_)
SumFrames(ps) ==
    IF ps = {} THEN 0
    ELSE LET p == CHOOSE q \in ps : TRUE
         IN  wm[p].current_update + SumFrames(ps \ {p})

\* The content peer p's simulator writes in its frame number n.
Content(p, n) == <<p, n>>

RECURSIVE AddUpdates(_, _)
AddUpdates(w, chunks) ==
    IF chunks = <<>> THEN w
    ELSE AddUpdates(add_update(w, chunks[1],
                               Content(w.my_peer_id, w.current_update + 1)),
                    Tail(chunks))

\* The manager after one simulator frame: add_update for the chunks of
\* `edited`, then add_end(priority, pos).
FrameOf(w, edited, priority, pos, elsewhere, ord) ==
    add_end(AddUpdates(w, SeqOfSet(edited)), priority, pos, elsewhere, ord)

\* A frame that leaves everything but the frame counters as it was.
IdleFrame(w, w1) ==
    [w1 EXCEPT !.current_update = 0, !.chunk_last_update = EmptyMap, !.log = <<>>]
      = [w EXCEPT !.current_update = 0, !.chunk_last_update = EmptyMap]

Frame(p, edited, priority, pos, elsewhere, maxFrames) ==
    /\ SumFrames(Peers) < maxFrames
    /\ edited # {} \/ elsewhere
    /\ \E ord \in OrdersFor(wm[p]) :
          \E w \in {FrameOf(wm[p], edited, priority, pos, elsewhere, ord)} :
              /\ ~IdleFrame(wm[p], w)
              /\ Finish(net, p, w)

Update(p) ==
    \E w \in {update(wm[p])} :
        /\ get_emitted_msgs(w) # wm[p]
        /\ Finish(net, p, w)

Deliver(from, to) ==
    /\ net[<<from, to>>] # <<>>
    /\ Finish([net EXCEPT ![<<from, to>>] = Tail(@)], to,
              HandleMsg(wm[to], from, Head(net[<<from, to>>])))

\* The steps of the system when the simulator of peer p passes add_end a
\* priority of prios[p] and at most maxFrames frames are simulated.
NextWith(prios, maxFrames) ==
    \/ \E p \in Peers, edited \in SUBSET Chunks, pos \in PosInputs,
          elsewhere \in BOOLEAN :
          \E priority \in prios[p] :
              Frame(p, edited, priority, pos, elsewhere, maxFrames)
    \/ \E p \in Peers : Update(p)
    \/ \E l \in Links : Deliver(l[1], l[2])

Next == NextWith([p \in Peers |-> Priorities], MaxFrames)

Spec == Init /\ [][Next]_vars

(***************************************************************************)
(* SpecListen starts where scenario 2 of the design ends: A is the         *)
(* Authority of chunk (0,0) at priority 100 with B listening, after A and  *)
(* then B edited the chunk at priority 100 next to it.                     *)
(***************************************************************************)
ListenManagers ==
    [p \in Peers |->
       IF p = "A"
       THEN [new(FALSE, "A", EmptyMap) EXCEPT
               !.my_pos = <<0, 0>>, !.cam_pos = <<0, 0>>,
               !.outbound_model[Chunk0] = Some(Content("A", 1)),
               !.chunk_state[Chunk0] = StAuthority({"B"}, 100, None, FALSE),
               !.current_update = 1,
               !.chunk_last_update[Chunk0] = Some(1)]
       ELSE IF p = "B"
       THEN [new(FALSE, "B", EmptyMap) EXCEPT
               !.my_pos = <<0, 0>>, !.cam_pos = <<0, 0>>,
               !.outbound_model[Chunk0] = Some(Content("B", 1)),
               !.inbound_model[Chunk0] = Some(Content("A", 1)),
               !.chunk_state[Chunk0] = StListening("A", 100),
               !.current_update = 1,
               !.chunk_last_update[Chunk0] = Some(1)]
       ELSE [new(TRUE, Host, EmptyMap) EXCEPT
               !.authority_map[Chunk0] = <<"A", 100>>]]

InitListen ==
    /\ wm = ListenManagers
    /\ net = [l \in Links |-> <<>>]
    /\ final = NoFinal
    /\ left = {}
    /\ offered = {}
    /\ done = None

\* A keeps editing at priority 100, B at 50, the host at 100.
ListenPriorities == [p \in Peers |-> IF p = "B" THEN {50} ELSE {100}]

NextListen == NextWith(ListenPriorities, MaxFramesListen)

SpecListen == InitListen /\ [][NextListen]_vars

\* The initial state of SpecListen is a state of Spec.
ListenStateReached ==
    /\ wm = ListenManagers
    /\ \A l \in Links : net[l] = <<>>

(***************************************************************************)
(* SpecContest starts with two listeners: A is the Authority of chunk      *)
(* (0,0) at priority 100, and B and the host listen after each edited the  *)
(* chunk once at priority 100 next to it.  A and B then edit at 50 or     *)
(* 100 and the host at 75, so both listeners may contend for the chunk.    *)
(***************************************************************************)
MaxFramesContest == 5

ContestManagers ==
    [p \in Peers |->
       IF p = "A"
       THEN [ListenManagers["A"] EXCEPT
               !.chunk_state[Chunk0] = StAuthority({"B", Host}, 100, None, FALSE)]
       ELSE IF p = "B"
       THEN ListenManagers["B"]
       ELSE [ListenManagers[Host] EXCEPT
               !.my_pos = <<0, 0>>, !.cam_pos = <<0, 0>>,
               !.outbound_model[Chunk0] = Some(Content(Host, 1)),
               !.inbound_model[Chunk0] = Some(Content("A", 1)),
               !.chunk_state[Chunk0] = StListening("A", 100),
               !.current_update = 1,
               !.chunk_last_update[Chunk0] = Some(1)]]

InitContest ==
    /\ wm = ContestManagers
    /\ net = [l \in Links |-> <<>>]
    /\ final = NoFinal
    /\ left = {}
    /\ offered = {}
    /\ done = None

ContestPriorities ==
    [p \in Peers |-> IF p = Host THEN {75} ELSE {50, 100}]

NextContest == NextWith(ContestPriorities, MaxFramesContest)

SpecContest == InitContest /\ [][NextContest]_vars

\* The initial state of SpecContest is a state of the system.
ContestStateReached ==
    /\ wm = ContestManagers
    /\ \A l \in Links : net[l] = <<>>

\* SpecRank starts like SpecContest with other edit priorities: B contends at
\* 50 or 75 and the authority A edits at 75, so that a contender can change
\* its priority while the authority still holds the one it recorded first.
MaxFramesRank == 6

RankPriorities ==
    [p \in Peers |-> IF p = "A" THEN {75} ELSE IF p = "B" THEN {50, 75} ELSE {}]

NextRank == NextWith(RankPriorities, MaxFramesRank)

SpecRank == InitContest /\ [][NextRank]_vars

\* SpecContest under fair scheduling: as long as a message is in flight or
\* an update() has something to do, one of them happens.
Progress ==
    \/ \E l \in Links : Deliver(l[1], l[2])
    \/ \E p \in Peers : Update(p)

SpecContestFair == SpecContest /\ WF_vars(Progress)

(***************************************************************************)
(* SpecLeave adds the departure of peers to SpecContest: once a peer has   *)
(* left, every other manager runs handle_peer_left for it, and the peer    *)
(* itself takes no step and receives nothing any more.                     *)
(***************************************************************************)
MaxFramesLeave == 5

\* The peers that have left: some manager was told so.
Departed == {l[2] : l \in left}

\* The manager of q runs handle_peer_left(p).
PeerLeft(q, p) ==
    /\ q # p
    /\ q \notin Departed
    /\ <<q, p>> \notin left
    /\ left' = left \cup {<<q, p>>}
    /\ UNCHANGED <<offered, done>>
    /\ Outcome(net, q, handle_peer_left(wm[q], p))

NextLeave ==
    \/ \E p \in Peers \ Departed, edited \in SUBSET Chunks, pos \in PosInputs,
          elsewhere \in BOOLEAN :
          \E priority \in ContestPriorities[p] :
              Frame(p, edited, priority, pos, elsewhere, MaxFramesLeave)
    \/ \E p \in Peers \ Departed : Update(p)
    \/ \E l \in Links : l[2] \notin Departed /\ Deliver(l[1], l[2])
    \/ \E q \in Peers, p \in Peers \ {Host} : PeerLeft(q, p)

SpecLeave == InitContest /\ [][NextLeave]_vars

\* The steps that fair scheduling keeps taking once peers have left: the
\* deliveries to, and the update() calls of, the peers still in the session.
ProgressLeave ==
    \/ \E l \in Links : l[2] \notin Departed /\ Deliver(l[1], l[2])
    \/ \E p \in Peers \ Departed : Update(p)

\* The session in which only peer A leaves.
NextLeaveOfA ==
    \/ \E p \in Peers \ Departed, edited \in SUBSET Chunks, pos \in PosInputs,
          elsewhere \in BOOLEAN :
          \E priority \in ContestPriorities[p] :
              Frame(p, edited, priority, pos, elsewhere, MaxFramesLeave)
    \/ \E p \in Peers \ Departed : Update(p)
    \/ \E l \in Links : l[2] \notin Departed /\ Deliver(l[1], l[2])
    \/ \E q \in Peers : PeerLeft(q, "A")

SpecLeaveFair == InitContest /\ [][NextLeaveOfA]_vars /\ WF_vars(ProgressLeave)

(***************************************************************************)
(* Properties                                                              *)
(***************************************************************************)
\* No message is in flight.
Quiet == \A l \in Links : net[l] = <<>>

\* Nothing is left to do without a new simulator frame: no message is in
\* flight and update() changes no manager.
Stable == Quiet /\ \A p \in Peers : get_emitted_msgs(update(wm[p])) = wm[p]

HasState(p, c) == wm[p].chunk_state[c] # NoState

InFlight(from, to, type, c) ==
    \E i \in 1..Len(net[<<from, to>>]) :
        /\ net[<<from, to>>][i].type = type
        /\ net[<<from, to>>][i].chunk = c

\* C1: no two distinct peers are both in ChunkState::Authority for the same
\* chunk, in any reachable state.
NoSplitOwnership ==
    \A c \in Chunks : \A p, q \in Peers :
        IsAuthority(wm[p], c) /\ IsAuthority(wm[q], c) => p = q

\* Scenario 3 has run: from A Authority at priority 100 with B its only
\* listener, B has edited the chunk at priority 50 next to it, A has produced
\* one more edit, and B has become Authority.
Scenario3Ran ==
    /\ wm["A"].current_update = 2 /\ wm["B"].current_update = 2
    /\ wm[Host].current_update = 0
    /\ wm["A"].my_pos = <<0, 0>> /\ wm["B"].my_pos = <<0, 0>>
    /\ IsAuthority(wm["B"], Chunk0)

\* C4: at the end of scenario 3, A has given the chunk up (its entry is
\* UnloadPending or removed), B is Authority with priority 50 and the host's
\* authority_map names (B, 50).
PreemptionEndState ==
    Scenario3Ran =>
        /\ wm["A"].chunk_state[Chunk0] \in {StUnloadPending, NoState}
        /\ wm["B"].chunk_state[Chunk0].priority = 50
        /\ wm[Host].authority_map[Chunk0] = <<"B", 50>>

\* C8: every member of an Authority's listener set subscribed to it and has
\* not sent ListenStopRequest since; in particular a peer that unloaded the
\* chunk (it has no chunk_state for it any more) is in no listener set,
\* unless its ListenStopRequest is still on its way.
ListenersSubscribed ==
    \A c \in Chunks : \A p \in Peers :
        IsAuthority(wm[p], c) =>
            \A l \in wm[p].chunk_state[c].listeners \ {p} :
                HasState(l, c) \/ InFlight(l, p, "ListenStopRequest", c)

\* C10: a TransferOk sent to a peer that was the authority's only listener
\* carries an empty listener set, and no peer in ChunkState::Authority has
\* its own peer id in its listeners.
NoSelfListener ==
    /\ \A l \in Links : \A i \in 1..Len(net[l]) :
          net[l][i].type = "TransferOk" => net[l][i].listeners # {l[2]}
    /\ \A c \in Chunks : \A p \in Peers :
          IsAuthority(wm[p], c) => p \notin wm[p].chunk_state[c].listeners

\* The chunk data of the GotAuthority and TransferOk messages for chunk c
\* that the manager w handled in its last entry point.
HandedData(w, c) ==
    {w.log[i].msg.chunk_data : i \in
        {j \in 1..Len(w.log) :
            /\ w.log[j].ev = "handle"
            /\ w.log[j].msg.type \in {"GotAuthority", "TransferOk"}
            /\ w.log[j].msg.chunk = c}}

\* Data d for chunk c is on its way to the host.
OnItsWayToHost(n, c, d) ==
    \E l \in Links : \E i \in 1..Len(n[l]) :
        /\ l[2] = Host
        /\ n[l][i].type \in {"RelinquishAuthority", "UpdateStorage"}
        /\ n[l][i].chunk = c
        /\ n[l][i].chunk_data = d

\* Peer p, whose entry point left the manager w, takes chunk c over from
\* another peer whose final data the step neither hands to p nor leaves in
\* or on its way to the host's storage.
LosesUpdate(p, c, w) ==
    /\ ~IsAuthority(wm[p], c) /\ IsAuthority(w, c)
    /\ final[c].from \notin {"", p}
    /\ final[c].data # None
    /\ wm[final[c].from].chunk_state[c].kind # "Authority"
    /\ final[c].data \notin HandedData(w, c)
    /\ wm'[Host].chunk_storage[c] # final[c].data
    /\ ~OnItsWayToHost(net', c, final[c].data)

\* C2: whenever authority over a chunk passes from a peer A to a peer B, the
\* data A held when it stopped being Authority is delivered to B in the
\* TransferOk or GotAuthority that makes it Authority, or is written to the
\* host's chunk_storage (or is still on its way there).
NoLostUpdates ==
    [][\A c \in Chunks :
          /\ \A p \in Peers : Update(p) => ~LosesUpdate(p, c, update(wm[p]))
          /\ \A l \in Links :
                Deliver(l[1], l[2]) =>
                    ~LosesUpdate(l[2], c,
                                 HandleMsg(wm[l[2]], l[1], Head(net[l])))]_vars

\* C3: a peer q that is Listening{authority = p} is in the listener set of
\* p's Authority state once every message has been delivered and every
\* update() has run.
ListenersRegistered ==
    Stable =>
        \A c \in Chunks : \A q \in Peers :
            wm[q].chunk_state[c].kind = "Listening" =>
                LET p == wm[q].chunk_state[c].authority
                IN  /\ IsAuthority(wm[p], c)
                    /\ q \in wm[p].chunk_state[c].listeners

\* The messages of the given type that the manager w emitted (emit_msg calls,
\* inline ones included) in its last entry point, with their destinations.
EmittedOfType(w, type) ==
    SelectSeq(w.log, LAMBDA e : e.ev = "emit" /\ e.msg.type = type)

\* The step delivers to peer `to` the message of the given type that heads
\* the channel from `from`.
Delivers(from, to, type) ==
    /\ net[<<from, to>>] # <<>>
    /\ Head(net[<<from, to>>]).type = type
    /\ net'[<<from, to>>] = Tail(net[<<from, to>>])
    /\ Deliver(from, to)

\* The step delivers to peer `to` the message that heads the channel from
\* `from`.
Delivered(from, to) ==
    /\ net[<<from, to>>] # <<>>
    /\ net'[<<from, to>>] = Tail(net[<<from, to>>])
    /\ Deliver(from, to)

\* C5, step by step.  A first local edit at priority pr inserts
\* RequestAuthority{pr, can_wait = true}.
ClaimEdit(c) ==
    \A p \in Peers, edited \in SUBSET Chunks, pr \in Priorities,
       pos \in PosInputs, elsewhere \in BOOLEAN :
        ( /\ Frame(p, edited, pr, pos, elsewhere, MaxFrames)
          /\ c \in edited
          /\ wm[p].chunk_state[c] = NoState )
        => wm'[p].chunk_state[c] = StRequestAuthority(pr, TRUE)

\* The next update() of a peer sends exactly that request to the host.
ClaimRequest(c) ==
    \A p \in Peers \ {Host} :
        ( /\ Update(p)
          /\ wm[p].chunk_state[c].kind = "RequestAuthority" )
        => /\ update(wm[p]).emitted_messages =
                <<Emission(DstHost,
                           MRequestAuthority(c, wm[p].chunk_state[c].priority,
                                             wm[p].chunk_state[c].can_wait))>>
           /\ net'[<<p, Host>>] =
                Append(net[<<p, Host>>],
                       MRequestAuthority(c, wm[p].chunk_state[c].priority,
                                         wm[p].chunk_state[c].can_wait))
           /\ wm'[p].chunk_state[c] = StWaitingForAuthority

\* The host records the requester of an unowned chunk and answers
\* GotAuthority with the requested priority.
ClaimGrant(c) ==
    \A p \in Peers \ {Host} :
        LET m == Head(net[<<p, Host>>])
        IN  ( /\ Delivers(p, Host, "RequestAuthority")
              /\ m.chunk = c
              /\ wm[Host].authority_map[c] = None )
            => /\ wm'[Host].authority_map[c] = <<p, m.priority>>
               /\ net'[<<Host, p>>] =
                    Append(net[<<Host, p>>],
                           MGotAuthority(c, wm[Host].chunk_storage[c], m.priority))

\* The peer ends in Authority with that priority and no listener.
ClaimGranted(c) ==
    \A p \in Peers \ {Host} :
        LET m == Head(net[<<Host, p>>])
        IN  ( /\ Delivers(Host, p, "GotAuthority")
              /\ m.chunk = c )
            => wm'[p].chunk_state[c] = StAuthority({}, m.priority, None, FALSE)

\* The host claiming an unowned chunk for itself does all of it inside its
\* update().
ClaimInline(c) ==
    ( /\ Update(Host)
      /\ wm[Host].chunk_state[c].kind = "RequestAuthority"
      /\ wm[Host].authority_map[c] = None )
    => /\ wm'[Host].authority_map[c] = <<Host, wm[Host].chunk_state[c].priority>>
       /\ wm'[Host].chunk_state[c] =
            StAuthority({}, wm[Host].chunk_state[c].priority, None, FALSE)
       /\ update(wm[Host]).emitted_messages = <<>>

\* C5: a peer with no chunk_state that edits an unowned chunk at priority p
\* sends exactly RequestAuthority{chunk, p, can_wait = true} in its next
\* update(), the host records (peer, p) and answers GotAuthority with
\* priority p, and the peer ends Authority with priority p and no listener;
\* the host itself does the same inline.
InitialClaim ==
    [][\A c \in Chunks :
          /\ ClaimEdit(c) /\ ClaimRequest(c) /\ ClaimGrant(c)
          /\ ClaimGranted(c) /\ ClaimInline(c)]_vars

\* A peer other than the host holds the chunk it was the first to claim.
InitialClaimDone ==
    \E p \in Peers \ {Host} : \E pr \in Priorities :
        /\ wm[p].chunk_state[Chunk0] = StAuthority({}, pr, None, FALSE)
        /\ wm[Host].authority_map[Chunk0] = <<p, pr>>
        /\ wm[p].current_update = 1
        /\ final = NoFinal
        /\ Quiet

HandledData(w, c, d) ==
    \E i \in 1..Len(w.log) :
        /\ w.log[i].ev = "handle"
        /\ w.log[i].msg.type \in {"RelinquishAuthority", "UpdateStorage"}
        /\ w.log[i].msg.chunk = c
        /\ w.log[i].msg.chunk_data = d

Accepted(p, m) ==
    /\ m.chunk_data # None
    /\ m.world_num = wm[Host].world_num
    /\ \/ m.type = "UpdateStorage"
       \/ /\ m.type = "RelinquishAuthority"
          /\ \/ wm[Host].authority_map[m.chunk] = None
             \/ wm[Host].authority_map[m.chunk][1] = p

Notified(w) ==
    LET sent == EmittedOfType(w, "NotifyNewAuthority")
    IN  [i \in 1..Len(sent) |-> sent[i].dst]

\* An Authority that handles RequestAuthorityTransfer answers with one
\* TransferOk that carries its listener set.
TransferOffer ==
    \A l \in Links :
        ( /\ Delivers(l[1], l[2], "RequestAuthorityTransfer")
          /\ IsAuthority(wm[l[2]], Head(net[l]).chunk) )
        => LET c == Head(net[l]).chunk
               w == HandleMsg(wm[l[2]], l[1], Head(net[l]))
               ok == EmittedOfType(w, "TransferOk")
           IN  /\ Len(ok) = 1
               /\ ok[1].dst = DstPeer(l[1])
               /\ ok[1].msg.chunk = c
               /\ ok[1].msg.listeners = wm[l[2]].chunk_state[c].listeners

\* The peer that handles TransferOk becomes Authority with the listener set
\* of the message and sends one NotifyNewAuthority to each of its members
\* and to nobody else.
TransferTaken ==
    \A l \in Links :
        Delivers(l[1], l[2], "TransferOk")
        => LET m == Head(net[l])
               to == Notified(HandleMsg(wm[l[2]], l[1], m))
           IN  /\ IsAuthority(wm'[l[2]], m.chunk)
               /\ wm'[l[2]].chunk_state[m.chunk].listeners = m.listeners
               /\ {to[i] : i \in 1..Len(to)} = {DstPeer(q) : q \in m.listeners}
               /\ Len(to) = Cardinality(m.listeners)
               /\ \A q \in m.listeners \ {l[2]} :
                     /\ net'[<<l[2], q>>] # <<>>
                     /\ net'[<<l[2], q>>][Len(net'[<<l[2], q>>])] =
                            MNotifyNewAuthority(m.chunk)

\* C9: after a pull-transfer the new owner's listeners are exactly the
\* listeners the previous authority had when it handled
\* RequestAuthorityTransfer, and NotifyNewAuthority goes to exactly them.
TransferRoundTrip == [][TransferOffer /\ TransferTaken]_vars

\* B has taken the chunk over from A with A's listener set, of two peers.
TransferCompleted ==
    /\ IsAuthority(wm["B"], Chunk0)
    /\ wm["B"].chunk_state[Chunk0].listeners = {"B", Host}
    /\ final[Chunk0].from = "A"
    /\ ~HasState("A", Chunk0)

\* The new_authority slot of an Authority w for chunk c after it handles
\* LoseAuthority{c, p1, l1} from l1 and then LoseAuthority{c, p2, l2} from l2.
AfterContenders(w, c, l1, p1, l2, p2) ==
    HandleMsg(HandleMsg(w, l1, MLoseAuthority(c, p1, l1)),
              l2, MLoseAuthority(c, p2, l2)).chunk_state[c].new_authority

\* Peer q contends with the Authority p for chunk c, and p has handled its
\* LoseAuthority.
Contends(q, p, c) ==
    /\ wm[q].chunk_state[c].kind = "WantToGetAuth"
    /\ wm[q].chunk_state[c].authority = p
    /\ ~InFlight(q, p, "LoseAuthority", c)

\* C11: an Authority with no pending successor that handles LoseAuthority
\* from two different listeners with priorities p1 < p2 ends with
\* new_authority = (the p1 contender, p1), whichever message it handles
\* first; so A, once it has handled the messages of B (50) and of the host
\* (75) without an edit of its own, names (B, 50).
PreemptionFairness ==
    /\ \A c \in Chunks : \A p \in Peers :
          ( /\ IsAuthority(wm[p], c)
            /\ wm[p].chunk_state[c].new_authority = None )
          => \A l1, l2 \in wm[p].chunk_state[c].listeners \ {p} :
                \A p1, p2 \in UNION {ContestPriorities[q] : q \in Peers} :
                    (l1 # l2 /\ p1 < p2)
                    => /\ AfterContenders(wm[p], c, l1, p1, l2, p2) = <<l1, p1>>
                       /\ AfterContenders(wm[p], c, l2, p2, l1, p1) = <<l1, p1>>
    /\ ( /\ IsAuthority(wm["A"], Chunk0)
         /\ wm["A"].current_update = 1
         /\ Contends("B", "A", Chunk0)
         /\ Contends(Host, "A", Chunk0) )
       => wm["A"].chunk_state[Chunk0].new_authority = <<"B", 50>>

\* A has handled the LoseAuthority of both of its listeners and has not
\* edited the chunk since.
BothContended ==
    /\ IsAuthority(wm["A"], Chunk0)
    /\ wm["A"].current_update = 1
    /\ Contends("B", "A", Chunk0)
    /\ Contends(Host, "A", Chunk0)
    /\ wm["B"].chunk_state[Chunk0].my_priority = 50
    /\ wm[Host].chunk_state[Chunk0].my_priority = 75
    /\ wm["A"].chunk_state[Chunk0].new_authority = <<"B", 50>>

\* The positions in the log of manager w of the RequestAuthority messages it
\* handled in its last entry point.
RequestsHandled(w) ==
    {i \in 1..Len(w.log) :
        w.log[i].ev = "handle" /\ w.log[i].msg.type = "RequestAuthority"}

\* What tells the steps apart: a frame of p counts in current_update, a
\* delivery to p shortens one of its channels, an update() does neither.
Framed(p) == wm'[p].current_update # wm[p].current_update
Updated(p) ==
    /\ wm'[p] # wm[p]
    /\ ~Framed(p)
    /\ \A q \in Peers \ {p} : Len(net'[<<q, p>>]) = Len(net[<<q, p>>])

\* A Listening peer that edits the chunk at the priority it holds for the
\* authority stays as it is and sends no LoseAuthority.
TieListening(c) ==
    \A p \in Peers :
        (Framed(p) /\ wm[p].chunk_state[c].kind = "Listening")
        => \A edited \in SUBSET Chunks, pos \in PosInputs, elsewhere \in BOOLEAN :
              ( /\ c \in edited
                /\ Frame(p, edited, wm[p].chunk_state[c].priority, pos, elsewhere,
                         MaxFramesContest) )
              => /\ wm'[p].chunk_state[c] = wm[p].chunk_state[c]
                 /\ EmittedOfType(FrameOf(wm[p], edited, wm[p].chunk_state[c].priority,
                                          pos, elsewhere, AnyOrder),
                                  "LoseAuthority") = <<>>

\* A WantToGetAuth peer goes back to Listening when its new edit priority is
\* not below the authority's, or when the authority's updates carry a
\* priority that is not above its own.
TieContender(c) ==
    /\ \A p \in Peers :
          (Framed(p) /\ wm[p].chunk_state[c].kind = "WantToGetAuth")
          => \A edited \in SUBSET Chunks, pos \in PosInputs, elsewhere \in BOOLEAN :
                \A pr \in ContestPriorities[p] :
                    ( /\ c \in edited
                      /\ wm[p].chunk_state[c].my_priority # pr
                      /\ wm[p].chunk_state[c].auth_priority <= pr
                      /\ Frame(p, edited, pr, pos, elsewhere, MaxFramesContest) )
                    => wm'[p].chunk_state[c] =
                          StListening(wm[p].chunk_state[c].authority,
                                      wm[p].chunk_state[c].auth_priority)
    /\ \A l \in Links :
          LET m == Head(net[l])
              st == wm[l[2]].chunk_state[c]
          IN  /\ ( /\ Delivers(l[1], l[2], "ListenUpdate")
                   /\ m.delta.chunk_coord = c
                   /\ st.kind = "WantToGetAuth"
                   /\ m.priority <= st.my_priority )
                 => wm'[l[2]].chunk_state[c] = StListening(st.authority, m.priority)
              /\ ( /\ Delivers(l[1], l[2], "ChunkPacket")
                   /\ st.kind = "WantToGetAuth"
                   /\ \E i \in 1..Len(m.chunkpacket) :
                         /\ m.chunkpacket[i][1].chunk_coord = c
                         /\ m.chunkpacket[i][2] <= st.my_priority )
                 => wm'[l[2]].chunk_state[c].kind = "Listening"

\* An Authority that edits at priority pr hands the chunk to its pending
\* successor (ListenUpdate with take_auth) only when the successor's priority
\* is strictly below pr.
TieAuthority(c) ==
    \A p \in Peers :
        (Framed(p) /\ IsAuthority(wm[p], c))
        => \A edited \in SUBSET Chunks, pos \in PosInputs, elsewhere \in BOOLEAN :
              \A pr \in ContestPriorities[p] :
                  ( /\ c \in edited
                    /\ \/ wm[p].chunk_state[c].new_authority = None
                       \/ wm[p].chunk_state[c].new_authority[2] >= pr
                    /\ Frame(p, edited, pr, pos, elsewhere, MaxFramesContest) )
                  => /\ wm'[p].chunk_state[c].new_authority = None
                     /\ \A ord \in OrdersFor(wm[p]) :
                           EmittedOfType(FrameOf(wm[p], edited, pr, pos, elsewhere, ord),
                                         "ListenUpdate") = <<>>

\* The host, whose entry point left the manager w, started no pull-transfer
\* for a request of a peer other than the owner at the owner's priority.
TieAtHost(w) ==
    \A i \in RequestsHandled(w) :
        LET e == w.log[i]
            owner == wm[Host].authority_map[e.msg.chunk]
        IN  ( /\ owner # None
              /\ owner[1] # e.source
              /\ owner[2] = e.msg.priority )
            => /\ w.log[i + 1] =
                     EvEmit(DstPeer(e.source),
                            MAuthorityAlreadyTaken(e.msg.chunk, owner[1]))
               /\ EmittedOfType(w, "GetAuthorityFrom") = <<>>
               /\ w.authority_map[e.msg.chunk] = owner

\* C12: a contender whose priority equals the authority's never preempts
\* it: a Listening peer editing at that priority stays Listening and sends
\* no LoseAuthority, a WantToGetAuth peer whose priority is no longer
\* strictly better is restored to Listening, an Authority does not hand over
\* to a successor of equal priority, and the host starts no pull-transfer for
\* a request at the owner's recorded priority.
TieBreak ==
    [][/\ \A c \in Chunks : TieListening(c) /\ TieContender(c) /\ TieAuthority(c)
       /\ (Updated(Host) /\ Update(Host)) => TieAtHost(update(wm[Host]))
       /\ \A p \in Peers \ {Host} :
             Delivers(p, Host, "RequestAuthority")
             => TieAtHost(HandleMsg(wm[Host], p, Head(net[<<p, Host>>])))]_vars

\* B contended at priority 50 and, editing again at the authority's
\* priority, is a listener again, while A still names it as successor.
TieRestored ==
    /\ wm["B"].chunk_state[Chunk0] = StListening("A", 100)
    /\ wm["B"].current_update = 3
    /\ IsAuthority(wm["A"], Chunk0)
    /\ wm["A"].chunk_state[Chunk0].new_authority = <<"B", 50>>
    /\ wm["A"].chunk_state[Chunk0].priority = 100
    /\ wm["A"].current_update = 1
    /\ Quiet

\* The host, whose entry point left the manager w, answered every request of
\* the recorded owner with GotAuthority{chunk_data = None} and nothing else
\* (the host's own GotAuthority is handled inline), kept the requester as
\* owner and left chunk_storage as it was.
ReGranted(w) ==
    \A i \in RequestsHandled(w) :
        LET e == w.log[i]
            c == e.msg.chunk
            owner == wm[Host].authority_map[c]
            reply == MGotAuthority(c, None, e.msg.priority)
        IN  (owner # None /\ owner[1] = e.source)
            => /\ SubSeq(w.log, i + 1, Len(w.log)) =
                     IF e.source = Host
                     THEN <<EvEmit(DstPeer(Host), reply), EvHandle(Host, reply)>>
                     ELSE <<EvEmit(DstPeer(e.source), reply)>>
               /\ w.emitted_messages =
                     IF e.source = Host THEN <<>>
                     ELSE <<Emission(DstPeer(e.source), reply)>>
               /\ w.authority_map[c] # None
               /\ w.authority_map[c][1] = e.source
               /\ w.chunk_storage = wm[Host].chunk_storage

\* C13: when the host handles RequestAuthority from the peer already
\* recorded as owner of the chunk, it replies GotAuthority with chunk_data =
\* None, keeps that peer as owner, sends no other message and leaves
\* chunk_storage unchanged, whatever the priority and can_wait of the request.
IdempotentReGrant ==
    [][/\ (Updated(Host) /\ Update(Host)) => ReGranted(update(wm[Host]))
       /\ \A p \in Peers \ {Host} :
             Delivered(p, Host)
             => ReGranted(HandleMsg(wm[Host], p, Head(net[<<p, Host>>])))]_vars

\* The host granted the chunk to a peer twice in a row, the second time to
\* its recorded owner: that GotAuthority carries no data although the host
\* stores data for the chunk.
ReGrantSent ==
    \E p \in Peers \ {Host} :
        LET q == net[<<Host, p>>]
        IN  /\ Len(q) >= 2
            /\ q[Len(q) - 1].type = "GotAuthority"
            /\ q[Len(q)].type = "GotAuthority"
            /\ q[Len(q)].chunk_data = None
            /\ q[Len(q)].priority # q[Len(q) - 1].priority
            /\ wm[Host].chunk_storage[Chunk0] # None
            /\ wm[Host].authority_map[Chunk0] = <<p, q[Len(q)].priority>>

\* The replies of the host's RequestAuthority handler that the manager w
\* emitted in its last entry point.
Replies(w) ==
    SelectSeq(w.log,
              LAMBDA e : /\ e.ev = "emit"
                         /\ e.msg.type \in {"GotAuthority", "GetAuthorityFrom",
                                            "AuthorityAlreadyTaken"})

HandledOfType(w, type) ==
    SelectSeq(w.log, LAMBDA e : e.ev = "handle" /\ e.msg.type = type)

\* The request e starts a pull-transfer from the owner.
Pulls(owner, e) == owner[2] > e.msg.priority /\ ~e.msg.can_wait

\* The host, whose entry point left the manager w, treated every request for
\* an owned chunk from a peer other than the owner by the rule: GetAuthorityFrom
\* and the requester recorded as owner when the request pulls, otherwise
\* AuthorityAlreadyTaken and authority_map as it was.  (A reply to the host
\* itself is handled inline; its GetAuthorityFrom may end in the host's own
\* RelinquishAuthority, which removes the new entry again.)
PullRule(w) ==
    \A i \in RequestsHandled(w) :
        LET e == w.log[i]
            c == e.msg.chunk
            owner == wm[Host].authority_map[c]
            reply == IF Pulls(owner, e)
                     THEN MGetAuthorityFrom(c, owner[1])
                     ELSE MAuthorityAlreadyTaken(c, owner[1])
            recorded == IF Pulls(owner, e) THEN <<e.source, e.msg.priority>>
                        ELSE owner
        IN  (owner # None /\ owner[1] # e.source)
            => /\ w.log[i + 1] = EvEmit(DstPeer(e.source), reply)
               /\ Len(Replies(w)) = 1
               /\ e.source # Host
                  => /\ Len(w.log) = i + 1
                     /\ w.emitted_messages = <<Emission(DstPeer(e.source), reply)>>
                     /\ w.authority_map[c] = recorded
               /\ e.source = Host
                  => /\ w.log[i + 2] = EvHandle(Host, reply)
                     /\ w.authority_map[c] =
                           IF HandledOfType(w, "RelinquishAuthority") # <<>>
                           THEN None ELSE recorded

\* C14: when the host handles RequestAuthority{chunk, priority, can_wait}
\* from a peer that is not the recorded owner of an owned chunk, it starts a
\* pull-transfer (authority_map[chunk] = (source, priority) and exactly
\* GetAuthorityFrom{chunk, previous owner} to source) if and only if the
\* owner's recorded priority is greater than the request's and can_wait is
\* false; otherwise authority_map is unchanged and the reply is
\* AuthorityAlreadyTaken naming the owner.
PullTransferRule ==
    [][/\ (Updated(Host) /\ Update(Host)) => PullRule(update(wm[Host]))
       /\ \A p \in Peers \ {Host} :
             Delivered(p, Host)
             => PullRule(HandleMsg(wm[Host], p, Head(net[<<p, Host>>])))]_vars

\* The host has started a pull-transfer from A, which holds the chunk at
\* priority 100, to a peer that asked for it at priority 50.
PullStarted ==
    \E p \in Peers \ {Host, "A"} :
        /\ net[<<Host, p>>] # <<>>
        /\ net[<<Host, p>>][Len(net[<<Host, p>>])] = MGetAuthorityFrom(Chunk0, "A")
        /\ wm[Host].authority_map[Chunk0] = <<p, 50>>
        /\ wm[p].chunk_state[Chunk0] = StWaitingForAuthority
        /\ IsAuthority(wm["A"], Chunk0)
        /\ wm["A"].chunk_state[Chunk0].priority = 100

\* The chunk data a grant to `source` carries by the data policy.
GrantData(w, c, source) ==
    IF w.authority_map[c] = None \/ w.authority_map[c][1] # source
    THEN w.chunk_storage[c]
    ELSE None

\* C15: the GotAuthority of emit_got_authority(chunk, source, priority) on
\* the host carries chunk_storage[chunk] (None without an entry) when the
\* chunk had no recorded owner or an owner other than source, and None when
\* source was the recorded owner; either way authority_map[chunk] becomes
\* (source, priority) and nothing else is sent.
GrantDataPolicy ==
    \A c \in Chunks : \A source \in Peers : \A priority \in {0, 50, 75, 100, 255} :
        LET w == emit_got_authority(wm[Host], c, source, priority)
            got == MGotAuthority(c, GrantData(wm[Host], c, source), priority)
        IN  /\ w.log = IF source = Host
                       THEN <<EvEmit(DstPeer(Host), got), EvHandle(Host, got)>>
                       ELSE <<EvEmit(DstPeer(source), got)>>
            /\ w.emitted_messages =
                  IF source = Host THEN <<>> ELSE <<Emission(DstPeer(source), got)>>
            /\ w.authority_map = [wm[Host].authority_map EXCEPT ![c] = <<source, priority>>]
            /\ w.chunk_storage = wm[Host].chunk_storage

\* The host stores data for the chunk and has granted it, with that data,
\* to a peer that did not own it.
GrantedWithData ==
    \E p \in Peers \ {Host} :
        /\ wm[Host].chunk_storage[Chunk0] # None
        /\ wm[Host].authority_map[Chunk0] # None
        /\ wm[Host].authority_map[Chunk0][1] = p
        /\ net[<<Host, p>>] =
              <<MGotAuthority(Chunk0, wm[Host].chunk_storage[Chunk0],
                              wm[Host].authority_map[Chunk0][2])>>
        /\ final[Chunk0].from \notin {"", p}

\* The chunks that authority_map of the host records as owned by p.
OwnedBy(p) ==
    {c \in Chunks : /\ wm[Host].authority_map[c] # None
                    /\ wm[Host].authority_map[c][1] = p}

\* C16: handle_peer_left(p) on the host removes from authority_map exactly
\* the entries owned by p, broadcasts one ListenAuthorityRelinquished per
\* removed chunk, which it also applies to its own chunk_state, and leaves
\* chunk_storage and the entries of other owners unchanged; on any other
\* peer it changes nothing and emits nothing.
PeerDeparture ==
    [][\A q \in Peers, p \in Peers \ {Host} :
          PeerLeft(q, p)
          => LET w == handle_peer_left(wm[q], p)
             IN  IF q = Host
                 THEN /\ \A c \in Chunks :
                            /\ wm'[Host].authority_map[c] =
                                  IF c \in OwnedBy(p) THEN None
                                  ELSE wm[Host].authority_map[c]
                            /\ wm'[Host].chunk_state[c] =
                                  IF c \in OwnedBy(p) THEN StUnloadPending
                                  ELSE wm[Host].chunk_state[c]
                      /\ wm'[Host].chunk_storage = wm[Host].chunk_storage
                      /\ Len(w.emitted_messages) = Cardinality(OwnedBy(p))
                      /\ {w.emitted_messages[i] : i \in 1..Len(w.emitted_messages)} =
                            {Emission(DstBroadcast, MListenAuthorityRelinquished(c)) :
                               c \in OwnedBy(p)}
                      /\ \A r \in Peers \ {Host} :
                            net'[<<Host, r>>] =
                               net[<<Host, r>>]
                               \o [i \in 1..Len(w.emitted_messages) |->
                                     w.emitted_messages[i].msg]
                 ELSE /\ wm' = wm
                      /\ net' = net
                      /\ w.log = <<>>]_vars

\* B, which took the chunk over from A and left as its Authority, is gone:
\* the host has no owner for the chunk any more, still stores the data A
\* handed in, and its ListenAuthorityRelinquished is on its way to A.
OwnerLeft ==
    /\ <<Host, "B">> \in left
    /\ IsAuthority(wm["B"], Chunk0)
    /\ wm[Host].authority_map[Chunk0] = None
    /\ wm[Host].chunk_storage[Chunk0] # None
    /\ final[Chunk0].from = "A"
    /\ net[<<Host, "A">>] # <<>>
    /\ net[<<Host, "A">>][Len(net[<<Host, "A">>])] =
          MListenAuthorityRelinquished(Chunk0)
    /\ wm[Host].chunk_state[Chunk0] = StUnloadPending

\* An Authority whose update() finds should_kill true sends the host
\* RelinquishAuthority with the chunk's data and its world_num, and gives the
\* chunk up.
LeavesArea(c) ==
    \A p \in Peers :
        (Updated(p) /\ IsAuthority(wm[p], c) /\ Kill(wm[p], c) /\ Update(p))
        => LET m == MRelinquishAuthority(c, get_chunk_data(wm[p].outbound_model, c),
                                         wm[p].world_num)
           IN  /\ EmittedOfType(update(wm[p]), "RelinquishAuthority") =
                     <<EvEmit(DstHost, m)>>
               /\ p # Host => /\ Len(net'[<<p, Host>>]) > Len(net[<<p, Host>>])
                              /\ net'[<<p, Host>>][Len(net'[<<p, Host>>])] = m
                              /\ wm'[p].chunk_state[c] = NoState

\* The host that handles the RelinquishAuthority of the recorded owner, with
\* its own world_num, removes the owner, stores the data and broadcasts
\* ListenAuthorityRelinquished; so does the host that leaves the area of a
\* chunk it owns.
HostReleases(c) ==
    /\ \A p \in Peers \ {Host} :
          LET m == Head(net[<<p, Host>>])
          IN  ( /\ Delivers(p, Host, "RelinquishAuthority")
                /\ m.chunk = c
                /\ wm[Host].authority_map[c] # None
                /\ wm[Host].authority_map[c][1] = p
                /\ m.world_num = wm[Host].world_num )
              => /\ wm'[Host].authority_map[c] = None
                 /\ wm'[Host].chunk_storage[c] =
                       IF m.chunk_data # None THEN m.chunk_data
                       ELSE wm[Host].chunk_storage[c]
                 /\ \A r \in Peers \ {Host} :
                       net'[<<Host, r>>] =
                          Append(net[<<Host, r>>], MListenAuthorityRelinquished(c))
                 /\ wm'[Host].chunk_state[c] = StUnloadPending
    /\ ( /\ Updated(Host)
         /\ IsAuthority(wm[Host], c)
         /\ Kill(wm[Host], c)
         /\ wm[Host].authority_map[c] # None
         /\ wm[Host].authority_map[c][1] = Host
         /\ Update(Host) )
       => /\ wm'[Host].authority_map[c] = None
          /\ wm'[Host].chunk_storage[c] =
                IF wm[Host].outbound_model[c] # None THEN wm[Host].outbound_model[c]
                ELSE wm[Host].chunk_storage[c]
          /\ \A r \in Peers \ {Host} :
                /\ net'[<<Host, r>>] # <<>>
                /\ net'[<<Host, r>>][Len(net'[<<Host, r>>])] =
                      MListenAuthorityRelinquished(c)

\* A listener that handles ListenAuthorityRelinquished is UnloadPending, and
\* the next update() of an UnloadPending peer removes the entry and forgets
\* the chunk in both models.
ListenersUnload(c) ==
    /\ \A l \in Links :
          ( /\ Delivers(l[1], l[2], "ListenAuthorityRelinquished")
            /\ Head(net[l]).chunk = c
            /\ wm[l[2]].chunk_state[c].kind \in {"Listening", "WantToGetAuth"} )
          => wm'[l[2]].chunk_state[c] = StUnloadPending
    /\ \A p \in Peers :
          (Updated(p) /\ wm[p].chunk_state[c] = StUnloadPending /\ Update(p))
          => /\ wm'[p].chunk_state[c] = NoState
             /\ wm'[p].inbound_model[c] = None
             /\ wm'[p].outbound_model[c] = None

\* C17: an Authority that finds should_kill true in update() sends
\* RelinquishAuthority{chunk, data, world_num} to the host; the host, for
\* the recorded owner and a matching world_num, removes the owner, stores
\* the data and broadcasts ListenAuthorityRelinquished; every listener that
\* handles it is UnloadPending and is removed by its next update().
AuthorityLeavesArea ==
    [][\A c \in Chunks : LeavesArea(c) /\ HostReleases(c) /\ ListenersUnload(c)]_vars

\* Scenario 4 has run: A left the area, the host stores A's data and has no
\* owner, and both listeners, which never moved nor edited, have unloaded
\* the chunk.
ScenarioFourDone ==
    /\ final[Chunk0] = [from |-> "A", data |-> Some(Content("A", 1))]
    /\ wm[Host].chunk_storage[Chunk0] = Some(Content("A", 1))
    /\ wm[Host].authority_map[Chunk0] = None
    /\ \A p \in Peers : ~HasState(p, Chunk0)
    /\ wm["B"].current_update = 1 /\ wm[Host].current_update = 1
    /\ wm["B"].inbound_model[Chunk0] = None
    /\ Quiet

\* The step delivers to peer p a TransferOk or a TransferFailed for chunk c.
TransferResolved(p, c) ==
    \E q \in Peers \ {p} :
        /\ net[<<q, p>>] # <<>>
        /\ Head(net[<<q, p>>]).type \in {"TransferOk", "TransferFailed"}
        /\ Head(net[<<q, p>>]).chunk = c
        /\ Delivered(q, p)

\* C18: once a peer's chunk_state for a chunk is Transfer, the entry stays
\* Transfer until the peer handles TransferOk or TransferFailed for the
\* chunk; no update() and no other incoming message changes or removes it.
TransferPersists ==
    [][\A p \in Peers, c \in Chunks :
          ( /\ wm[p].chunk_state[c] = StTransfer
            /\ wm'[p].chunk_state[c] # StTransfer )
          => TransferResolved(p, c)]_vars

\* update() of w handles inline, while it flushes its emit queue, a message
\* that inserts UnloadPending for chunk c.
UnloadsInline(w, c) ==
    \E i \in 1..Len(update(w).log) :
        /\ update(w).log[i].ev = "handle"
        /\ update(w).log[i].msg.type \in {"ListenAuthorityRelinquished", "UnloadChunk"}
        /\ update(w).log[i].msg.chunk = c

\* C19: after update() returns, chunk_state holds no UnloadPending entry,
\* whether the entry became UnloadPending in the pass over the chunks or
\* through a message handled inline while the emit queue was flushed; both
\* models have forgotten every chunk without an entry.
NoUnloadPendingAfterUpdate ==
    \A p \in Peers, c \in Chunks :
        /\ update(wm[p]).chunk_state[c] # StUnloadPending
        /\ (wm[p].chunk_state[c] = StUnloadPending \/ UnloadsInline(wm[p], c))
           => /\ update(wm[p]).chunk_state[c] = NoState
              /\ update(wm[p]).inbound_model = forget_chunk(update(wm[p]).inbound_model, c)
              /\ update(wm[p]).outbound_model = forget_chunk(update(wm[p]).outbound_model, c)

\* A manager whose update() is about to unload a chunk through a message it
\* handles inline.
UnloadedInline ==
    \E p \in Peers, c \in Chunks :
        /\ wm[p].chunk_state[c] \notin {NoState, StUnloadPending}
        /\ UnloadsInline(wm[p], c)

\* The priorities and chunk contents the entry points are tried with.
FramePriorities == UNION {ContestPriorities[p] : p \in Peers}
RandomData == {Content(p, 0) : p \in Peers}

\* add_end, after any add_update calls, counts exactly one frame.
AddEndCounts(p) ==
    \A edited \in SUBSET Chunks, pr \in FramePriorities, pos \in PosInputs,
       elsewhere \in BOOLEAN, ord \in OrdersFor(wm[p]) :
        FrameOf(wm[p], edited, pr, pos, elsewhere, ord).current_update
          = wm[p].current_update + 1

\* No other entry point touches the counter.
OthersKeepCount(p) ==
    /\ update(wm[p]).current_update = wm[p].current_update
    /\ \A q \in Peers \ {p} :
          net[<<q, p>>] # <<>>
          => HandleMsg(wm[p], q, Head(net[<<q, p>>])).current_update
               = wm[p].current_update
    /\ \A q \in Peers \ {p} :
          handle_peer_left(wm[p], q).current_update = wm[p].current_update
    /\ reset(wm[p]).current_update = wm[p].current_update
    /\ \A sync_test \in BOOLEAN, chunk_data \in RandomData :
          get_noita_updates(wm[p], sync_test, chunk_data).current_update
            = wm[p].current_update
    /\ get_emitted_msgs(wm[p]).current_update = wm[p].current_update

\* C20: current_update is strictly monotonic: every add_end call raises it
\* by exactly one, and update, handle_msg, handle_peer_left, reset,
\* get_noita_updates and get_emitted_msgs leave it as it is.
CounterMonotonic == \A p \in Peers : AddEndCounts(p) /\ OthersKeepCount(p)

\* The same, step by step: a step never lowers a counter, and raises at most
\* one counter, by one.
CounterSteps ==
    [][\A p \in Peers :
          /\ wm'[p].current_update \in {wm[p].current_update, wm[p].current_update + 1}
          /\ Framed(p) => \A q \in Peers \ {p} : ~Framed(q)]_vars

\* A manager that has counted two frames, holds other state than at the
\* start and has a message waiting to be handled.
FramesCounted ==
    \E p \in Peers :
        /\ wm[p].current_update = ContestManagers[p].current_update + 2
        /\ wm[p].chunk_state # ContestManagers[p].chunk_state
        /\ \E q \in Peers \ {p} : net[<<q, p>>] # <<>>

\* C21: in every reachable state, an Authority whose stop_sending is true
\* has a pending successor (new_authority is Some) and has dispatched a
\* ListenUpdate{take_auth = true} for the chunk to that successor before.
StopSendingAfterOffer ==
    \A p \in Peers, c \in Chunks :
        ( /\ IsAuthority(wm[p], c)
          /\ wm[p].chunk_state[c].stop_sending )
        => /\ wm[p].chunk_state[c].new_authority # None
           /\ <<p, wm[p].chunk_state[c].new_authority[1], c>> \in offered

\* An Authority that handles LoseAuthority for chunk c: a message naming the
\* authority itself clears new_authority; a contender is recorded when there
\* is no pending successor or when its priority is strictly better
\* (numerically lower) than the pending one's, and is ignored otherwise.
SuccessorRule(c) ==
    \A p \in Peers : \A q \in Peers \ {p} :
        ( /\ Delivers(q, p, "LoseAuthority")
          /\ Head(net[<<q, p>>]).chunk = c
          /\ IsAuthority(wm[p], c) )
        => LET m == Head(net[<<q, p>>])
               old == wm[p].chunk_state[c].new_authority
               contender == <<m.new_authority, m.new_priority>>
           IN  /\ IsAuthority(wm'[p], c)
               /\ wm'[p].chunk_state[c].new_authority =
                    IF m.new_authority = p THEN None
                    ELSE IF old = None THEN contender
                    ELSE IF old[2] > m.new_priority THEN contender
                    ELSE old

\* The step delivers to p a LoseAuthority for chunk c in which contender q
\* names itself.
Contended(q, p, c) ==
    /\ q # p
    /\ Delivers(q, p, "LoseAuthority")
    /\ Head(net[<<q, p>>]).chunk = c
    /\ Head(net[<<q, p>>]).new_authority = q

\* A successor is recorded only for a contender whose LoseAuthority the
\* step handles, and a pending successor gives way to another only when the
\* other's priority is strictly better.
SuccessorOrigin(c) ==
    \A p \in Peers :
        ( /\ IsAuthority(wm'[p], c)
          /\ wm'[p].chunk_state[c].new_authority # None
          /\ \/ ~IsAuthority(wm[p], c)
             \/ wm[p].chunk_state[c].new_authority
                  # wm'[p].chunk_state[c].new_authority )
        => LET old == IF IsAuthority(wm[p], c)
                      THEN wm[p].chunk_state[c].new_authority ELSE None
               succ == wm'[p].chunk_state[c].new_authority
           IN  /\ Contended(succ[1], p, c)
               /\ Head(net[<<succ[1], p>>]).new_priority = succ[2]
               /\ old # None => succ[2] < old[2]

\* C22: an Authority's new_authority is Some only while a hand-off is
\* pending: it is set by a contender's LoseAuthority, becomes None when the
\* designated recipient answers with a LoseAuthority that names the
\* authority, and a pending successor is displaced only by a contender with
\* strictly better (numerically lower) priority.
PendingHandOff == [][\A c \in Chunks : SuccessorRule(c) /\ SuccessorOrigin(c)]_vars

\* An Authority that offered the chunk to a peer and whose hand-off was then
\* called off: the recipient named the authority in its LoseAuthority.
HandOffRefused ==
    \E p \in Peers, q \in Peers, c \in Chunks :
        /\ <<p, q, c>> \in offered
        /\ IsAuthority(wm[p], c)
        /\ wm[p].chunk_state[c].new_authority = None
        /\ wm[p].chunk_state[c].stop_sending

\* The destination is the emitting manager itself.
ToSelf(w, dst) == (w.is_host /\ dst = DstHost) \/ dst = DstPeer(w.my_peer_id)

\* The emit_msg calls of the entry point that produced w, in call order,
\* whose message was queued according to the rule.
QueuedEmits(w) ==
    SelectSeq(w.log, LAMBDA e : e.ev = "emit" /\ ~ToSelf(w, e.dst))

\* The short-circuit rule on the manager w an entry point returns: a message
\* to the manager itself or to everyone is handled right away with source
\* my_peer_id, any other message is not; nothing else is handled after the
\* entry point's own message; the queue holds the broadcasts and the
\* messages to others, in emission order, and no message to the manager
\* itself.
ShortCircuit(w) ==
    /\ \A i \in 1..Len(w.log) :
          w.log[i].ev = "emit"
          => IF ToSelf(w, w.log[i].dst) \/ w.log[i].dst = DstBroadcast
             THEN /\ i < Len(w.log)
                  /\ w.log[i + 1] = EvHandle(w.my_peer_id, w.log[i].msg)
             ELSE i < Len(w.log) => w.log[i + 1].ev = "emit"
    /\ \A i \in 2..Len(w.log) :
          w.log[i].ev = "handle" => w.log[i - 1].ev = "emit"
    /\ w.emitted_messages =
          [i \in 1..Len(QueuedEmits(w)) |->
              Emission(QueuedEmits(w)[i].dst, QueuedEmits(w)[i].msg)]
    /\ get_emitted_msgs(w).emitted_messages = <<>>

\* C23: the short-circuit rule of emit_msg holds for every entry point
\* (add_end, update, handle_msg, handle_peer_left) run on any manager of a
\* reachable state, and between entry points the queue is empty:
\* get_emitted_msgs took the queued messages in emission order.
ShortCircuitRule ==
    \A p \in Peers :
        /\ wm[p].emitted_messages = <<>>
        /\ ShortCircuit(update(wm[p]))
        /\ \A q \in Peers \ {p} :
              /\ ShortCircuit(handle_peer_left(wm[p], q))
              /\ net[<<q, p>>] # <<>>
                 => ShortCircuit(HandleMsg(wm[p], q, Head(net[<<q, p>>])))
        /\ \A edited \in SUBSET Chunks, pr \in FramePriorities, pos \in PosInputs,
              elsewhere \in BOOLEAN, ord \in OrdersFor(wm[p]) :
              ShortCircuit(FrameOf(wm[p], edited, pr, pos, elsewhere, ord))

\* A manager whose update() emits a message to itself and a broadcast, both
\* handled inline, and queues the broadcast only.
EmitsInline ==
    \E p \in Peers :
        /\ \E i \in 1..Len(update(wm[p]).log) :
              /\ update(wm[p]).log[i].ev = "emit"
              /\ ToSelf(wm[p], update(wm[p]).log[i].dst)
        /\ \E i \in 1..Len(update(wm[p]).log) :
              /\ update(wm[p]).log[i].ev = "emit"
              /\ update(wm[p]).log[i].dst = DstBroadcast
        /\ Len(update(wm[p]).emitted_messages) = 1
        /\ update(wm[p]).emitted_messages[1].dst = DstBroadcast

\* The host-only messages a peer may be handed, with every payload.
WorldNums == {0, 1}
DataInputs == {None} \cup {Some(d) : d \in RandomData}
HostOnlyMessages ==
    UNION {
        {MRequestAuthority(c, pr, cw) : pr \in FramePriorities, cw \in BOOLEAN}
        \cup {MChangePriority(c, pr) : pr \in FramePriorities}
        \cup {MRelinquishAuthority(c, d, n) : d \in DataInputs, n \in WorldNums}
        \cup {MUpdateStorage(c, d, n) : d \in DataInputs, n \in WorldNums}
        : c \in Chunks}

\* C24: a non-host peer that handles RequestAuthority, ChangePriority,
\* RelinquishAuthority or UpdateStorage drops the message: chunk_state,
\* authority_map, chunk_storage, both models and every other field are as
\* before, and nothing is emitted.
MisuseDropped ==
    \A p \in Peers \ {Host}, source \in Peers, m \in HostOnlyMessages :
        HandleMsg(wm[p], source, m)
          = [wm[p] EXCEPT !.log = Append(@, EvHandle(source, m))]

\* A state in which the host-only messages matter: A holds the chunk as
\* Authority, B contends for it, and a RelinquishAuthority from A that would
\* make the host release the chunk and store the data leaves B as it is.
MisuseMatters ==
    /\ IsAuthority(wm["A"], Chunk0)
    /\ wm["A"].outbound_model[Chunk0] # None
    /\ wm["B"].chunk_state[Chunk0].kind = "WantToGetAuth"
    /\ wm["B"].inbound_model[Chunk0] # None
    /\ LET m == MRelinquishAuthority(Chunk0, Some(Content("A", 0)), 0)
       IN  /\ HandleMsg(wm[Host], "A", m).authority_map[Chunk0] = None
           /\ HandleMsg(wm[Host], "A", m).chunk_storage[Chunk0] = Some(Content("A", 0))
           /\ wm[Host].authority_map[Chunk0] # None
           /\ HandleMsg(wm["B"], "A", m).chunk_state = wm["B"].chunk_state
           /\ HandleMsg(wm["B"], "A", m).chunk_storage = wm["B"].chunk_storage
           /\ HandleMsg(wm["B"], "A", m).emitted_messages = <<>>

\* C25: the host that handles RelinquishAuthority for a chunk from a peer
\* that authority_map does not record as the chunk's owner, the case of no
\* recorded owner included, drops the message: authority_map and
\* chunk_storage are unchanged and no ListenAuthorityRelinquished is
\* broadcast.
MismatchDropped ==
    [][\A p \in Peers \ {Host} :
          ( /\ Delivers(p, Host, "RelinquishAuthority")
            /\ \/ wm[Host].authority_map[Head(net[<<p, Host>>]).chunk] = None
               \/ wm[Host].authority_map[Head(net[<<p, Host>>]).chunk][1] # p )
          => /\ wm'[Host].authority_map = wm[Host].authority_map
             /\ wm'[Host].chunk_storage = wm[Host].chunk_storage
             /\ \A r \in Peers \ {Host} : net'[<<Host, r>>] = net[<<Host, r>>]]_vars

\* A peer that is not Authority of the chunk answers a ListenRequest with one
\* UnloadChunk to the sender, sends nothing else and stays as it is.
ListenRefused ==
    \A l \in Links :
        ( /\ Delivers(l[1], l[2], "ListenRequest")
          /\ ~IsAuthority(wm[l[2]], Head(net[l]).chunk) )
        => /\ wm'[l[2]] = wm[l[2]]
           /\ net'[<<l[2], l[1]>>] =
                 Append(net[<<l[2], l[1]>>], MUnloadChunk(Head(net[l]).chunk))
           /\ \A r \in Peers \ {l[1], l[2]} : net'[<<l[2], r>>] = net[<<l[2], r>>]

\* The peer that handles UnloadChunk marks the chunk UnloadPending.
UnloadMarked ==
    \A l \in Links :
        Delivers(l[1], l[2], "UnloadChunk")
        => /\ wm'[l[2]].chunk_state =
                 [wm[l[2]].chunk_state EXCEPT ![Head(net[l]).chunk] = StUnloadPending]
           /\ \A r \in Peers \ {l[2]} : net'[<<l[2], r>>] = net[<<l[2], r>>]

\* C26: a peer that handles ListenRequest for a chunk it is not Authority of
\* replies with exactly one UnloadChunk to the sender and changes none of
\* its own state; the sender, on handling UnloadChunk, marks the chunk
\* UnloadPending.
ListenRequestRefused == [][ListenRefused /\ UnloadMarked]_vars

\* The refusal on its way: a peer that is not Authority has answered a
\* ListenRequest, and the UnloadChunk is the next message the requester, whose
\* entry is not UnloadPending yet, handles from it.
RefusalSent ==
    \E l \in Links :
        /\ net[l] # <<>>
        /\ Head(net[l]) = MUnloadChunk(Chunk0)
        /\ ~IsAuthority(wm[l[1]], Chunk0)
        /\ wm[l[2]].chunk_state[Chunk0] \notin {NoState, StUnloadPending}

\* The peer that handles TransferFailed for a chunk is left with
\* RequestAuthority{last_request_priority[chunk] or 255, can_wait = true}
\* for it, everything else unchanged, and sends nothing.
FallbackStep ==
    \A l \in Links :
        Delivers(l[1], l[2], "TransferFailed")
        => LET c == Head(net[l]).chunk
               remembered == wm[l[2]].last_request_priority[c]
               priority == IF remembered # None THEN remembered[1] ELSE 255
           IN  /\ wm'[l[2]] = [wm[l[2]] EXCEPT
                                 !.chunk_state[c] = StRequestAuthority(priority, TRUE)]
               /\ \A r \in Peers \ {l[2]} : net'[<<l[2], r>>] = net[<<l[2], r>>]

\* A TransferFailed for chunk c is the next message peer p handles from
\* some peer.
TransferFailedNext(p, c) ==
    \E q \in Peers \ {p} :
        /\ net[<<q, p>>] # <<>>
        /\ Head(net[<<q, p>>]) = MTransferFailed(c)

\* Peer p has a role for chunk c.
HasRole(p, c) == wm[p].chunk_state[c].kind \in {"Authority", "Listening"}

\* C27: on handling TransferFailed the peer's chunk_state becomes
\* RequestAuthority{last_request_priority[chunk] or 255, can_wait = true},
\* and under fair delivery the peer later is Authority or Listening for the
\* chunk.
TransferFailedFallback ==
    /\ [][FallbackStep]_vars
    /\ \A p \in Peers, c \in Chunks : TransferFailedNext(p, c) ~> HasRole(p, c)

\* The emit_msg calls of the entry point that produced w, in call order.
Emits(w) == SelectSeq(w.log, LAMBDA e : e.ev = "emit")

\* C28: a peer in Listening{authority, pri} that edits the chunk locally
\* with priority strictly less than pri sends exactly one
\* LoseAuthority{chunk, new_priority = priority, new_authority = itself} to
\* authority and becomes WantToGetAuth{authority, auth_priority = pri,
\* my_priority = priority}; with priority >= pri it stays Listening and
\* emits nothing.
ListenerPreemption ==
    \A p \in Peers, c \in Chunks :
        wm[p].chunk_state[c].kind = "Listening"
        => \A pr \in FramePriorities, pos \in PosInputs, elsewhere \in BOOLEAN,
              ord \in OrdersFor(wm[p]) :
              LET st == wm[p].chunk_state[c]
                  w == FrameOf(wm[p], {c}, pr, pos, elsewhere, ord)
                  lose == MLoseAuthority(c, pr, p)
              IN  IF pr < st.priority
                  THEN /\ w.chunk_state[c] =
                            StWantToGetAuth(st.authority, st.priority, pr)
                       /\ Emits(w) = <<EvEmit(DstPeer(st.authority), lose)>>
                       /\ st.authority # p
                          => w.emitted_messages =
                                <<Emission(DstPeer(st.authority), lose)>>
                  ELSE /\ w.chunk_state[c] = st
                       /\ Emits(w) = <<>>
                       /\ w.emitted_messages = <<>>

\* A listener has contended: it is WantToGetAuth and its LoseAuthority is
\* on its way to the authority.
ListenerContended ==
    \E p \in Peers, c \in Chunks :
        /\ wm[p].chunk_state[c].kind = "WantToGetAuth"
        /\ wm[p].chunk_state[c].authority # p
        /\ net[<<p, wm[p].chunk_state[c].authority>>] =
              <<MLoseAuthority(c, wm[p].chunk_state[c].my_priority, p)>>
        /\ wm[p].chunk_state[c].my_priority < wm[p].chunk_state[c].auth_priority

\* C29: a contender in WantToGetAuth that handles ListenUpdate{take_auth =
\* true} from the authority sends RequestAuthority{chunk, priority =
\* my_priority, can_wait = false} to the host and ends in
\* WaitingForAuthority, also when the contender is the host and the request
\* is handled inline before the handler writes WaitingForAuthority.
ContenderTakesOver ==
    [][\A l \in Links :
          ( /\ Delivers(l[1], l[2], "ListenUpdate")
            /\ Head(net[l]).take_auth
            /\ wm[l[2]].chunk_state[Head(net[l]).delta.chunk_coord].kind = "WantToGetAuth"
            /\ wm[l[2]].chunk_state[Head(net[l]).delta.chunk_coord].authority = l[1] )
          => LET c == Head(net[l]).delta.chunk_coord
                 rq == MRequestAuthority(c, wm[l[2]].chunk_state[c].my_priority, FALSE)
             IN  /\ EmittedOfType(HandleMsg(wm[l[2]], l[1], Head(net[l])),
                                  "RequestAuthority") = <<EvEmit(DstHost, rq)>>
                 /\ l[2] # Host => net'[<<l[2], Host>>] = Append(net[<<l[2], Host>>], rq)
                 /\ wm'[l[2]].chunk_state[c] = StWaitingForAuthority]_vars

\* C30: an Authority that is not in stop_sending, holds new_authority = (s, n)
\* with n below the edit's priority and has s among its listeners, handles a
\* local edit of the chunk: s is sent exactly one ListenUpdate with take_auth
\* and no ChunkPacket, chunk_updated_locally returns an empty list to add_end,
\* and stop_sending is true afterwards, whatever the order in which the
\* listener set is iterated.
HandOffCase(w, c, priority) ==
    /\ w.chunk_state[c].kind = "Authority"
    /\ ~w.chunk_state[c].stop_sending
    /\ w.chunk_state[c].new_authority # None
    /\ w.chunk_state[c].new_authority[2] < priority
    /\ w.chunk_state[c].new_authority[1] \in w.chunk_state[c].listeners

\* What the successor s is sent by the frame that left the manager f.
SentTo(f, s, type) ==
    SelectSeq(f.log, LAMBDA e : /\ e.ev = "emit"
                                /\ e.dst = DstPeer(s)
                                /\ e.msg.type = type)

\* The list chunk_updated_locally returns for chunk c in the frame of w.
ReturnedList(w, c, priority, pos, ord) ==
    chunk_updated_locally([AddUpdates(w, <<c>>) EXCEPT !.current_update = @ + 1],
                          c, priority, pos, ord).chunks_to_send

OfferDispatched(f, s, c) ==
    /\ Len(SentTo(f, s, "ListenUpdate")) = 1
    /\ SentTo(f, s, "ListenUpdate")[1].msg.take_auth
    /\ SentTo(f, s, "ListenUpdate")[1].msg.delta.chunk_coord = c
    /\ SentTo(f, s, "ChunkPacket") = <<>>
    /\ f.chunk_state[c].kind = "Authority"
    /\ f.chunk_state[c].stop_sending

HandOffDispatch ==
    \A p \in Peers, c \in Chunks, priority \in FramePriorities :
        HandOffCase(wm[p], c, priority) =>
            \A ord \in PeerOrders, pos \in PosInputs :
                /\ OfferDispatched(FrameOf(wm[p], {c}, priority, pos, FALSE, ord),
                                   wm[p].chunk_state[c].new_authority[1], c)
                /\ ReturnedList(wm[p], c, priority, pos, ord) = <<>>

\* C31: an Authority with stop_sending whose pending successor has a priority
\* below the edit's priority forwards a local edit to no listener (no
\* ListenUpdate, no ChunkPacket, empty list returned to add_end); once
\* new_authority is None or its priority is not below the edit's, a local edit
\* clears stop_sending and goes to every listener with the edit's priority.
Withheld(w, c, priority) ==
    /\ w.chunk_state[c].kind = "Authority"
    /\ w.chunk_state[c].stop_sending
    /\ w.chunk_state[c].new_authority # None
    /\ w.chunk_state[c].new_authority[2] < priority

Resumes(w, c, priority) ==
    /\ w.chunk_state[c].kind = "Authority"
    /\ w.chunk_state[c].stop_sending
    /\ \/ w.chunk_state[c].new_authority = None
       \/ w.chunk_state[c].new_authority[2] >= priority

NothingForwarded(w, f, c) ==
    /\ EmittedOfType(f, "ListenUpdate") = <<>>
    /\ EmittedOfType(f, "ChunkPacket") = <<>>
    /\ f.chunk_state[c] = [w.chunk_state[c] EXCEPT !.priority = f.chunk_state[c].priority]

ForwardedToAll(w, f, c, priority) ==
    /\ EmittedOfType(f, "ListenUpdate") = <<>>
    /\ \A l \in Peers :
          IF l \in w.chunk_state[c].listeners
          THEN /\ Len(SentTo(f, l, "ChunkPacket")) = 1
               /\ Len(SentTo(f, l, "ChunkPacket")[1].msg.chunkpacket) = 1
               /\ SentTo(f, l, "ChunkPacket")[1].msg.chunkpacket[1][1].chunk_coord = c
               /\ SentTo(f, l, "ChunkPacket")[1].msg.chunkpacket[1][2] = priority
          ELSE SentTo(f, l, "ChunkPacket") = <<>>
    /\ f.chunk_state[c].kind = "Authority"
    /\ ~f.chunk_state[c].stop_sending
    /\ f.chunk_state[c].new_authority = None

StopSendingRule ==
    \A p \in Peers, c \in Chunks, priority \in FramePriorities :
        /\ Withheld(wm[p], c, priority) =>
              \A ord \in PeerOrders, pos \in PosInputs :
                  /\ NothingForwarded(wm[p], FrameOf(wm[p], {c}, priority, pos, FALSE, ord), c)
                  /\ ReturnedList(wm[p], c, priority, pos, ord) = <<>>
        /\ Resumes(wm[p], c, priority) =>
              \A ord \in PeerOrders, pos \in PosInputs :
                  ForwardedToAll(wm[p], FrameOf(wm[p], {c}, priority, pos, FALSE, ord),
                                 c, priority)

\* An Authority that withholds edits at one priority and, at another, resumes
\* towards two listeners.
StopSendingBothWays ==
    \E p \in Peers, c \in Chunks :
        /\ \E priority \in FramePriorities : Withheld(wm[p], c, priority)
        /\ \E priority \in FramePriorities :
              /\ Resumes(wm[p], c, priority)
              /\ Cardinality(wm[p].chunk_state[c].listeners) = 2
              /\ ForwardedToAll(wm[p],
                                FrameOf(wm[p], {c}, priority, PosNear, FALSE, AnyOrder),
                                c, priority)

\* C32: an Authority whose local edit has another priority than the stored one
\* stores the new priority and sends ChangePriority{chunk, priority} to the
\* host; the host writes the priority into authority_map only when the sender
\* is the recorded owner; and whenever no ChangePriority is in flight the
\* priority the host records for a chunk is its owner's Authority priority.
PriorityStored(w, f, c, priority) ==
    /\ f.chunk_state[c].kind = "Authority"
    /\ f.chunk_state[c].priority = priority
    /\ IF w.chunk_state[c].priority # priority
       THEN EmittedOfType(f, "ChangePriority")
              = <<EvEmit(DstHost, MChangePriority(c, priority))>>
       ELSE EmittedOfType(f, "ChangePriority") = <<>>

PriorityRecorded(w, f, source, c, priority) ==
    f.authority_map =
        IF w.authority_map[c] # None /\ w.authority_map[c][1] = source
        THEN [w.authority_map EXCEPT ![c] = <<source, priority>>]
        ELSE w.authority_map

NoChangePriorityInFlight ==
    \A l \in Links : \A i \in 1..Len(net[l]) : net[l][i].type # "ChangePriority"

PriorityAgreed ==
    NoChangePriorityInFlight =>
        \A c \in Chunks, p \in Peers :
            ( /\ wm[Host].authority_map[c] # None
              /\ wm[Host].authority_map[c][1] = p
              /\ wm[p].chunk_state[c].kind = "Authority" )
            => wm[Host].authority_map[c][2] = wm[p].chunk_state[c].priority

PrioritySync ==
    /\ \A p \in Peers, c \in Chunks, priority \in FramePriorities :
          wm[p].chunk_state[c].kind = "Authority" =>
              \A ord \in PeerOrders, pos \in PosInputs :
                  PriorityStored(wm[p], FrameOf(wm[p], {c}, priority, pos, FALSE, ord),
                                 c, priority)
    /\ \A source \in Peers \ {Host}, c \in Chunks, priority \in FramePriorities :
          PriorityRecorded(wm[Host],
                           HandleMsg(wm[Host], source, MChangePriority(c, priority)),
                           source, c, priority)
    /\ PriorityAgreed

\* C33: a peer that handles RequestAuthorityTransfer as Authority of the chunk
\* sends TransferOk{chunk, outbound data, listeners} to the requester and
\* UpdateStorage{chunk, outbound data, world_num} to the host and becomes
\* UnloadPending; in any other state it sends TransferFailed to the requester
\* alone and keeps its whole state.
SentBy(p, q) ==
    IF net'[<<p, q>>] = <<>> \/ Len(net'[<<p, q>>]) <= Len(net[<<p, q>>]) THEN <<>>
    ELSE SubSeq(net'[<<p, q>>], Len(net[<<p, q>>]) + 1, Len(net'[<<p, q>>]))

TransferGranted(q, p, c) ==
    LET data == get_chunk_data(wm[p].outbound_model, c)
        ok == MTransferOk(c, data, wm[p].chunk_state[c].listeners)
        us == MUpdateStorage(c, data, wm[p].world_num)
    IN  /\ Emits(HandleMsg(wm[p], q, MRequestAuthorityTransfer(c)))
              = <<EvEmit(DstPeer(q), ok), EvEmit(DstHost, us)>>
        /\ wm'[p].chunk_state = [wm[p].chunk_state EXCEPT ![c] = StUnloadPending]
        /\ \A r \in Peers \ {p} :
              SentBy(p, r) = (IF r = q THEN <<ok>> ELSE <<>>)
                                \o (IF r = Host THEN <<us>> ELSE <<>>)

TransferDeclined(q, p, c) ==
    /\ Emits(HandleMsg(wm[p], q, MRequestAuthorityTransfer(c)))
          = <<EvEmit(DstPeer(q), MTransferFailed(c))>>
    /\ wm'[p] = wm[p]
    /\ \A r \in Peers \ {p} :
          SentBy(p, r) = IF r = q THEN <<MTransferFailed(c)>> ELSE <<>>

TransferStep ==
    \A l \in Links :
        Delivers(l[1], l[2], "RequestAuthorityTransfer") =>
            IF IsAuthority(wm[l[2]], Head(net[l]).chunk)
            THEN TransferGranted(l[1], l[2], Head(net[l]).chunk)
            ELSE TransferDeclined(l[1], l[2], Head(net[l]).chunk)

PullTransferStep == [][TransferStep]_vars

\* A granted transfer is in flight: TransferOk and the UpdateStorage of the
\* same data are on their way and the sender is UnloadPending.
TransferAnswered ==
    \E k \in Links : \E i \in 1..Len(net[k]) :
        /\ net[k][i].type = "TransferOk"
        /\ wm[k[1]].chunk_state[net[k][i].chunk] = StUnloadPending
        /\ k[1] # Host =>
              \E j \in 1..Len(net[<<k[1], Host>>]) :
                  net[<<k[1], Host>>][j] =
                      MUpdateStorage(net[k][i].chunk, net[k][i].chunk_data,
                                     wm[k[1]].world_num)

\* C34: update() on a manager for which should_kill holds of chunk c.  As
\* Authority it emits AskForAuthority{c, n} to s when new_authority is (s, n),
\* always emits RelinquishAuthority{c, outbound data, world_num} to the host,
\* and has no entry for c when it returns; as WaitingForAuthority or
\* WantToGetAuth it emits nothing and has no entry afterwards; as Listening it
\* emits one ListenStopRequest, to its authority.
Teardown(w, u, c) ==
    LET st == w.chunk_state[c]
        ask == IF st.new_authority # None
               THEN <<EvEmit(DstPeer(st.new_authority[1]),
                             MAskForAuthority(c, st.new_authority[2]))>>
               ELSE <<>>
        rel == <<EvEmit(DstHost,
                        MRelinquishAuthority(c, get_chunk_data(w.outbound_model, c),
                                             w.world_num))>>
    IN  /\ u.chunk_state[c] = NoState
        /\ st.kind = "Authority" =>
              /\ EmittedOfType(u, "AskForAuthority") = ask
              /\ EmittedOfType(u, "RelinquishAuthority") = rel
              /\ ~w.is_host => Emits(u) = ask \o rel
        /\ st.kind \in {"WaitingForAuthority", "WantToGetAuth"} => Emits(u) = <<>>
        /\ st.kind = "Listening" =>
              Emits(u) = <<EvEmit(DstPeer(st.authority), MListenStopRequest(c))>>

GCTeardown ==
    \A p \in Peers, c \in Chunks :
        ( /\ Kill(wm[p], c)
          /\ wm[p].chunk_state[c].kind \in
                {"Authority", "WaitingForAuthority", "WantToGetAuth", "Listening"} )
        => Teardown(wm[p], update(wm[p]), c)

\* An Authority with a pending successor is out of its keep region.
AuthorityTornDown ==
    \E p \in Peers, c \in Chunks :
        /\ Kill(wm[p], c)
        /\ wm[p].chunk_state[c].kind = "Authority"
        /\ wm[p].chunk_state[c].new_authority # None
        /\ Len(Emits(update(wm[p]))) >= 2

(***************************************************************************)
(* Terraforming: pixels, do_ray and cut_through_world_circle               *)
(***************************************************************************)
\* CHUNK_SIZE, two pixels a side here.
ChunkSize == 2
\* The chunks a terraform call of SpecTerrain can reach, and the two that hold
\* pixels to begin with.
TerrainChunks == (-2 .. 3) \X (-2 .. 2)
ChunkL == <<0, 0>>
ChunkR == <<1, 0>>
\* The pixel coordinates of ChunkL and ChunkR.
TerrainXs == 0 .. (2 * ChunkSize - 1)
TerrainYs == 0 .. (ChunkSize - 1)

\* A decoded chunk: pixel index -> material.  Chunk::default() is all air;
\* apply_to_chunk overwrites every pixel and to_chunk_data encodes them all.
PixelIds == 0 .. (ChunkSize * ChunkSize - 1)
DefaultChunk == [px \in PixelIds |-> 0]
SolidChunk == [px \in PixelIds |-> 1]
ChunkValues == {None, Some(DefaultChunk), Some(SolidChunk)}
NoTerrain == [c \in TerrainChunks |-> None]

\* i32 truncating division by two.
HalfTrunc(n) == IF n >= 0 THEN n \div 2 ELSE -((-n) \div 2)
\* ChunkCoord(x.div_euclid(CHUNK_SIZE), y.div_euclid(CHUNK_SIZE))
ChunkOf(x, y) == <<x \div ChunkSize, y \div ChunkSize>>
\* icy * CHUNK_SIZE + icx with icx, icy the rem_euclid of x and y
PixelOf(x, y) == (y % ChunkSize) * ChunkSize + (x % ChunkSize)

\* Lines 1374-1384: the source of the starting chunk's pixels.
RayFirstSource(w, co) ==
    IF get_chunk_data(w.outbound_model, co) # None
    THEN get_chunk_data(w.outbound_model, co)
    ELSE IF get_chunk_data(w.inbound_model, co) # None
    THEN get_chunk_data(w.inbound_model, co)
    ELSE w.chunk_storage[co]

\* Lines 1392-1400: the source of the pixels of a chunk the ray crosses into.
RayNextSource(w, co) ==
    IF get_chunk_data(w.outbound_model, co) # None
    THEN get_chunk_data(w.outbound_model, co)
    ELSE IF get_chunk_data(w.outbound_model, co) # None
    THEN get_chunk_data(w.outbound_model, co)
    ELSE w.chunk_storage[co]

\* The while loop of do_ray (lines 1386-1426); s holds the loop's variables.
RECURSIVE RayLoop(_, _, _, _, _, _, _, _, _)
RayLoop(w, s, end_x, end_y, dx, dy, sx, sy, dm) ==
    IF s.x = end_x /\ s.y = end_y THEN Some(<<s.x, s.y>>)
    ELSE LET co == ChunkOf(s.x, s.y)
             crossed == co # s.last_co
             src == IF crossed THEN RayNextSource(w, co) ELSE Some(s.working)
         IN  IF src = None THEN s.last_coord
             ELSE LET stats == w.durabilities[src[1][PixelOf(s.x, s.y)]]
                      h == IF stats = None THEN 0 ELSE stats[1][2] * dm[2]
                  IN  IF stats # None /\ (stats[1][1] > dm[1] \/ s.ray < h)
                      THEN s.last_coord
                      ELSE RayLoop(w,
                                   [x |-> IF s.err > -dx THEN s.x + sx ELSE s.x,
                                    y |-> IF s.err < dy THEN s.y + sy ELSE s.y,
                                    err |-> s.err - (IF s.err > -dx THEN dy ELSE 0)
                                                  + (IF s.err < dy THEN dx ELSE 0),
                                    ray |-> IF s.ray >= h THEN s.ray - h ELSE 0,
                                    working |-> src[1],
                                    last_co |-> co,
                                    last_coord |-> Some(<<s.x, s.y>>)],
                                   end_x, end_y, dx, dy, sx, sy, dm)

do_ray(w, x, y, end_x, end_y, ray, d, mult) ==
    LET dx == Abs(end_x - x)
        dy == Abs(end_y - y)
        sx == IF x < end_x THEN 1 ELSE -1
        sy == IF y < end_y THEN 1 ELSE -1
        last_co == ChunkOf(x, y)
        last == RayFirstSource(w, last_co)
    IN  IF dx = 0 /\ dy = 0 THEN None
        ELSE IF last = None THEN None
        ELSE RayLoop(w,
                     [x |-> x, y |-> y,
                      err |-> HalfTrunc(IF dx > dy THEN dx ELSE -dy),
                      ray |-> ray, working |-> last[1], last_co |-> last_co,
                      last_coord |-> None],
                     end_x, end_y, dx, dy, sx, sy, <<d, mult>>)

\* Lines 1268-1284: the chunk is near enough to the centre to be edited.
CircleAccepts(chunk_x, chunk_y, x, y, r) ==
    \/ r <= ChunkSize
    \/ LET close_x == IF chunk_x < x \div ChunkSize
                      THEN (chunk_x + 1) * ChunkSize - 1
                      ELSE chunk_x * ChunkSize
           close_y == IF chunk_y < y \div ChunkSize
                      THEN (chunk_y + 1) * ChunkSize - 1
                      ELSE chunk_y * ChunkSize
       IN  (close_x - x) * (close_x - x) + (close_y - y) * (close_y - y) <= r * r

\* Lines 1306-1325: the pixels the loop writes, those within r of (x, y)
\* whose material in `chunk` (decoded from chunk_storage) is not 0.
CircleHits(chunk, coord, x, y, r) ==
    {px \in PixelIds :
        LET dx == coord[1] * ChunkSize + (px % ChunkSize) - x
            dy == coord[2] * ChunkSize + (px \div ChunkSize) - y
        IN  dx * dx + dy * dy <= r * r /\ chunk[px] # 0}

SetPixels(chunk, hits, material) ==
    [px \in PixelIds |-> IF px \in hits THEN material ELSE chunk[px]]

\* The body of the loops over chunk_x and chunk_y (lines 1267-1342).
CircleChunk(w, coord, x, y, r, mat) ==
    LET material == IF mat = None THEN 0 ELSE mat[1]
        do_continue == material # 0
        stored == w.chunk_storage[coord]
        chunk == IF stored # None THEN stored[1] ELSE DefaultChunk
        inb == IF w.nice_terraforming THEN get_chunk_data(w.inbound_model, coord)
               ELSE None
        outb == IF w.nice_terraforming THEN get_chunk_data(w.outbound_model, coord)
                ELSE None
        has_in == inb # None
        has_out == outb # None
        hits == CircleHits(chunk, coord, x, y, r)
        chunkin == SetPixels(IF has_in THEN inb[1] ELSE DefaultChunk,
                             IF has_in THEN hits ELSE {}, material)
        chunkout == SetPixels(IF has_out THEN outb[1] ELSE DefaultChunk,
                              IF has_out THEN hits ELSE {}, material)
        w1 == IF w.is_host
              THEN [w EXCEPT !.chunk_storage[coord] =
                                 Some(SetPixels(chunk, hits, material))]
              ELSE w
        w2 == IF has_in
              THEN [w1 EXCEPT !.inbound_model = apply_chunk_data(@, coord, chunkin)]
              ELSE IF has_out
              THEN [w1 EXCEPT !.inbound_model = apply_chunk_data(@, coord, chunkout)]
              ELSE w1
    IN  IF ~CircleAccepts(coord[1], coord[2], x, y, r) THEN w
        ELSE IF stored = None /\ (do_continue \/ ~w.nice_terraforming) THEN w
        ELSE IF has_out
        THEN [w2 EXCEPT !.outbound_model = apply_chunk_data(@, coord, chunkout)]
        ELSE w2

RECURSIVE CircleLoop(_, _, _, _, _, _)
CircleLoop(w, coords, x, y, r, mat) ==
    IF coords = <<>> THEN w
    ELSE CircleLoop(CircleChunk(w, coords[1], x, y, r, mat), Tail(coords),
                    x, y, r, mat)

cut_through_world_circle(w, x, y, r, mat) ==
    IF ~w.is_host /\ ~w.nice_terraforming THEN w
    ELSE CircleLoop(w,
                    SeqOfSet(((x - r) \div ChunkSize .. (x + r) \div ChunkSize)
                             \X ((y - r) \div ChunkSize .. (y + r) \div ChunkSize)),
                    x, y, r, mat)

(***************************************************************************)
(* SpecTerrain: one terraform call on a manager that holds pixels          *)
(***************************************************************************)
\* The managers share what they hold of ChunkL and ChunkR: l and r are
\* [out, inb, sto], each None or the chunk's pixels.
TerrainMap(l, r) ==
    [c \in TerrainChunks |-> IF c = ChunkL THEN l ELSE IF c = ChunkR THEN r ELSE None]

\* Material 1 needs tier 1 and costs one unit of a ray's energy.
TerrainDurabilities == [m \in Materials |-> IF m = 1 THEN Some(<<1, 1>>) ELSE None]

\* nice_terraforming is on by default; B's has been switched off.
NiceOf(p) == p # "B"

TerrainManager(p, l, r) ==
    [new(p = Host, p, TerrainMap(l.sto, r.sto)) EXCEPT
        !.outbound_model = TerrainMap(l.out, r.out),
        !.inbound_model = TerrainMap(l.inb, r.inb),
        !.nice_terraforming = NiceOf(p),
        !.durabilities = TerrainDurabilities]

Holdings == [out : ChunkValues, inb : ChunkValues, sto : ChunkValues]

\* The inputs of the terraform calls.
RayEnergies == {2}
RayTiers == {0, 1}
RayMults == {1}
CircleRadii == {1, 3}
CircleMaterials == {None, Some(1)}

InitTerrain ==
    /\ \E l \in Holdings, r \in Holdings :
          wm = [p \in Peers |-> TerrainManager(p, l, r)]
    /\ net = [l \in Links |-> <<>>]
    /\ final = NoFinal
    /\ left = {}
    /\ offered = {}
    /\ done = None

Ray(p, x, y, end_x, end_y, ray, d, mult) ==
    /\ done = None
    /\ done' = [op |-> "do_ray", peer |-> p, before |-> wm[p],
                args |-> <<x, y, end_x, end_y, ray, d, mult>>,
                result |-> do_ray(wm[p], x, y, end_x, end_y, ray, d, mult)]
    /\ UNCHANGED <<wm, net, final, left, offered>>

Circle(p, x, y, r, mat) ==
    /\ done = None
    /\ wm' = [wm EXCEPT ![p] = cut_through_world_circle(wm[p], x, y, r, mat)]
    /\ done' = [op |-> "cut_through_world_circle", peer |-> p, before |-> wm[p],
                args |-> <<x, y, r, mat>>, result |-> None]
    /\ UNCHANGED <<net, final, left, offered>>

NextTerrain ==
    \/ \E p \in Peers, x \in TerrainXs, y \in TerrainYs,
          end_x \in TerrainXs, end_y \in TerrainYs :
          \E ray \in RayEnergies, d \in RayTiers, mult \in RayMults :
              Ray(p, x, y, end_x, end_y, ray, d, mult)
    \/ \E p \in Peers, x \in TerrainXs, y \in TerrainYs :
          \E r \in CircleRadii, mat \in CircleMaterials :
              Circle(p, x, y, r, mat)

SpecTerrain == InitTerrain /\ [][NextTerrain]_vars

\* C35: at the starting chunk and at every chunk a ray crosses into, do_ray
\* reads the pixels from the outbound model if it has the chunk, else from the
\* inbound model, else from chunk_storage, and stops for want of pixels only
\* when none of the three has the chunk: the ray returns what it returns on
\* the manager whose outbound model holds, for every chunk, the pixels of the
\* first of the three that has it.
FirstSource(w, c) ==
    IF get_chunk_data(w.outbound_model, c) # None
    THEN get_chunk_data(w.outbound_model, c)
    ELSE IF get_chunk_data(w.inbound_model, c) # None
    THEN get_chunk_data(w.inbound_model, c)
    ELSE w.chunk_storage[c]

Resolved(w) ==
    [w EXCEPT !.outbound_model = [c \in TerrainChunks |-> FirstSource(w, c)],
              !.inbound_model = NoTerrain,
              !.chunk_storage = NoTerrain]

RayOn(w, a) == do_ray(w, a[1], a[2], a[3], a[4], a[5], a[6], a[7])

RaySourcePrecedence ==
    (done # None /\ done.op = "do_ray") =>
        done.result = RayOn(Resolved(done.before), done.args)

\* C36: cut_through_world_circle(x, y, r, None).  On a peer with
\* nice_terraforming, in every accepted chunk that the inbound or the outbound
\* model holds, that model's pixels within r of (x, y) become air and its
\* other pixels stay, whatever chunk_storage holds of the chunk; on a non-host
\* without nice_terraforming the call changes nothing.
CircleCut(chunk, coord, x, y, r) ==
    [px \in PixelIds |->
        LET dx == coord[1] * ChunkSize + (px % ChunkSize) - x
            dy == coord[2] * ChunkSize + (px \div ChunkSize) - y
        IN  IF dx * dx + dy * dy <= r * r THEN 0 ELSE chunk[px]]

CircleCleared(before, after, c, x, y, r) ==
    /\ before.inbound_model[c] # None =>
          after.inbound_model[c] = Some(CircleCut(before.inbound_model[c][1], c, x, y, r))
    /\ before.outbound_model[c] # None =>
          after.outbound_model[c] = Some(CircleCut(before.outbound_model[c][1], c, x, y, r))

CircleTerraforming ==
    ( /\ done # None
      /\ done.op = "cut_through_world_circle"
      /\ done.args[4] = None )
    => IF done.before.nice_terraforming
       THEN \A c \in TerrainChunks :
               CircleAccepts(c[1], c[2], done.args[1], done.args[2], done.args[3])
               => CircleCleared(done.before, wm[done.peer], c,
                                done.args[1], done.args[2], done.args[3])
       ELSE ~done.before.is_host => wm[done.peer] = done.before

\* C37: when no message is in flight and update() has nothing left to do on
\* any peer, the host's authority_map names peer p as the owner of a chunk
\* exactly when p's chunk_state for the chunk is Authority.
Quiescent ==
    /\ \A l \in Links : net[l] = <<>>
    /\ \A p \in Peers : get_emitted_msgs(update(wm[p])) = wm[p]

QuiescentAgreement ==
    Quiescent =>
        \A c \in Chunks, p \in Peers :
            (wm[Host].authority_map[c] # None /\ wm[Host].authority_map[c][1] = p)
                <=> wm[p].chunk_state[c].kind = "Authority"

\* The peer's entry for the chunk is one of the states that end a wait, or
\* update() has dropped it because the chunk left the keep region.
LeftWaiting(p, c) ==
    wm[p].chunk_state[c].kind \in
        {"Authority", "Listening", "Transfer", "UnloadPending", "None"}

\* C38: under fair delivery a peer of the session that is WaitingForAuthority
\* for a chunk later is Authority, Listening, Transfer or UnloadPending for
\* it, unless the chunk leaves its keep region or the peer itself leaves.

WaitingEnds ==
    \A p \in Peers, c \in Chunks :
        (p \notin Departed /\ wm[p].chunk_state[c] = StWaitingForAuthority)
            ~> (LeftWaiting(p, c) \/ p \in Departed)

\* The step delivers to the host an AskForAuthority from q for a chunk
\* without recorded owner.
AsksOwnerlessHost(q) ==
    /\ Delivers(q, Host, "AskForAuthority")
    /\ wm[Host].authority_map[Head(net[<<q, Host>>]).chunk] = None

\* C39: when the host handles AskForAuthority for a chunk without recorded
\* owner, it is the recorded owner in authority_map and its chunk_state for
\* the chunk is Authority when the handler returns.
InlineGrantKept ==
    [][\A q \in Peers \ {Host} :
          AsksOwnerlessHost(q) =>
              LET c == Head(net[<<q, Host>>]).chunk
              IN  /\ wm'[Host].authority_map[c] # None
                  /\ wm'[Host].authority_map[c][1] = Host
                  /\ wm'[Host].chunk_state[c].kind = "Authority"]_vars

\* C40: the host changes chunk_storage[c] on a message from the network only
\* when the sender is the recorded owner of c in authority_map, or when the
\* message is the UpdateStorage of a peer that has just been pulled from;
\* data of any other sender never replaces the stored snapshot.
StorageFromOwner ==
    [][\A q \in Peers \ {Host}, c \in Chunks :
          (/\ Delivered(q, Host)
           /\ wm'[Host].chunk_storage[c] # wm[Host].chunk_storage[c])
              => \/ Head(net[<<q, Host>>]).type = "UpdateStorage"
                 \/ /\ wm[Host].authority_map[c] # None
                    /\ wm[Host].authority_map[c][1] = q]_vars

====
